---- MODULE Spec2Model ----
(***************************************************************************)
(* Model of run_wrf/submit_jobs.py, function submit_jobs, in run and       *)
(* restart mode: the loop over configurations and repetitions, the skip    *)
(* decisions, and the job pool (IDs, rtr, vmem, nslots, nxny) with its     *)
(* flush, overflow cut and rescheduling.                                   *)
(*                                                                         *)
(* A run identifier IDr = IDi + "_" + str(rep) is modelled as the pair     *)
(* <<i, rep>>.  Python's None is the integer None below; every real slot   *)
(* count, runtime and memory value of the model is positive.               *)
(***************************************************************************)
EXTENDS Integers, Sequences, FiniteSets, TLC

\* ---------------------------------------------------------------- bounds
NConf == 2          \* at most this many configurations (rows of param_combs)
MaxRep == 2         \* n_rep of a configuration is in 1..MaxRep
MaxNProc == 2       \* nx and ny (after the caps) are in 1..MaxNProc
MaxPoolSize == 3    \* conf.pool_size is in 2..MaxPoolSize
MaxHours == 2       \* run_hours of a configuration; a restart has 1..MaxHours left
MaxSignal == 2      \* conf.send_rt_signal(_restart) is in 1..MaxSignal
MaxRt == 1          \* runtime per simulated hour is in 1..MaxRt
MaxVmem == 2        \* vmem per slot of a configuration is in 1..MaxVmem
TicksPerSecond == 2 \* runtimes are multiples of 1/TicksPerSecond seconds

NRepFS == 2         \* n_rep of the configuration whose directories are followed
NStreams == 2       \* output streams of that configuration
MaxInvoc == 4       \* successive invocations of submit_jobs on these directories

MaxDx == 2          \* args["dx"] of a configuration is in 1..MaxDx
NDirs == 2          \* run directories with a namelist.input
MaxVal == 2         \* a namelist parameter has a value in 1..MaxVal
MaxN == 6           \* grid points per axis are in 1..MaxN or one of 25, 100, 101
MaxPerProc == 3     \* conf.min_n_per_proc is in 1..MaxPerProc or 25
MaxCap == 2         \* conf.max_nslotsx and conf.max_nslotsy are None or in 1..MaxCap
MaxAxes == 2        \* param_grid has up to MaxAxes parameters
MaxLen == 2         \* a list of values in param_grid has up to MaxLen entries

None == -1          \* Python's None
Raised == -2        \* an exception left the call

Schedulers == {"none", "sge", "slurm"}
\* the runs and output streams whose directories and files are followed
RunsFS == {<<0, r>> : r \in 0..(NRepFS - 1)}
Streams == 1..NStreams
\* how a WRF job can end: with the success line in run.log, or without it and
\* with restart files before end_time, without restart files, or with a
\* restart file written at end_time
Outcomes == {"complete", "stopped", "norst", "atend"}
ExistValues == {"s", "o", "b", "a"}

VARIABLES
    job_scheduler,   \* "none" when use_job_scheduler is false
    init,
    pool_jobs, pool_size, restart, exist, check_args, send_rt_signal,
    request_vmem,
    ncombs,          \* len(param_combs)
    phase,           \* position in submit_jobs
    i, rep,          \* configuration index (enumerate), repetition index
    nx, ny, nslotsi, vmemi, rt_per_hour, run_hours, n_rep,
    IDr, rtri, last_id, resched_i,
    IDs, rtr, vmem, nslots, nxny,
    accepted,        \* history: identifiers appended to IDs, in order
    skipped,         \* history: identifiers of skipped repetitions
    submitted,       \* history: the pools that reached the submission command
    nexec,           \* history: number of os.system(comm) calls for runs
    niter,           \* history: passes of the "while iterate" loop in this flush
    err,             \* history: the exception that ended the invocation, or ""
    cutoff,          \* history: identifiers cut out of a too large pool
    estimates,       \* history: rtri of the accepted runs, in the order of accepted
    configs,         \* history: what lines 220-284 computed, per configuration
    \* the directories submit_jobs works on, per run identifier
    rundir,          \* run directory: "none", "dir", or "init" (with wrfinput_d01)
    dirbak,          \* indices k of the backups WRF_<ID>_bak_<k> under run_path/bak
    outfiles,        \* the streams whose output file <stream>_<ID> is in outpath
    outbak,          \* per stream, indices k of <stream>_<ID>_bak_<k> in outpath/bak
    rstseg,          \* per stream, indices k of <stream>_<ID>_rst_<k> in outpath/rst
    runlog,          \* run.log: "none", "partial", or "complete" (success line)
    rstleft,         \* hours from the newest wrfrst file to end_time, None without
    patched,         \* namelist.input was set to restart
    ninvoc,          \* history: number of the invocation of submit_jobs
    ninit,           \* history: init commands executed in this invocation
    nmoved,          \* history: renames of directories and files in this invocation
    nbak,            \* history: backups made of each run directory (dir) and
                     \* output file (out) since Init
    bak0,            \* history: the backup indices in use at Init
    pre,             \* history: the directories when the invocation started
    \* what misc_tools.set_vmem_rt reads and yields
    test_run,
    conf_rt,         \* conf.rt in minutes, or None
    conf_runtime_per_step_dict,  \* indexed by dx; <<>> when None or empty
    conf_vmem,       \* conf.vmem per slot, or None
    conf_vmem_per_grid_point,    \* twice conf.vmem_per_grid_point, or None
    conf_vmem_min,   \* conf.vmem_min, or None
    resources,       \* history: per configuration, the sources of estimates
                     \* and what set_vmem_rt returned
    \* what misc_tools.get_identical_runs reads and yields
    namelist,        \* per run directory, the dict of its namelist.input
    identical_runs,  \* history: per reference directory, the list returned
    \* what lines 220-243 read and misc_tools.find_nproc yields
    n_we, n_sn,      \* args["e_we"]-1 and args["e_sn"]-1
    min_n_per_proc, even_split,  \* conf.min_n_per_proc, conf.even_split
    max_nslotsx, max_nslotsy,    \* conf.max_nslotsx, conf.max_nslotsy, or None
    nprocs,          \* history: what find_nproc returned for x and y
    \* what misc_tools.grid_combinations and output_id_from_config read and yield
    param_grid,      \* the axes in declaration order: a list of values, or a
                     \* composite of two sub-parameters with their lists
    add_params,      \* the base parameters, as (key, value) pairs in order
    param_names,     \* None (none), or the axes with labels (of)
    expansion,       \* history: what grid_combinations returned, or raised
    fnames,          \* history: the ID of every configuration
    nreps,           \* history: n_rep of the configurations, in loop order
    runs             \* history: the repetitions the loop went through

settings == <<job_scheduler, init, pool_jobs, pool_size, restart, exist,
              check_args, send_rt_signal, request_vmem, ncombs>>
confvars == <<nx, ny, nslotsi, vmemi, rt_per_hour, run_hours, n_rep>>
pool == <<IDs, rtr, vmem, nslots, nxny>>
history == <<accepted, skipped, submitted, nexec, niter, err, cutoff, configs,
             estimates>>
disk == <<rundir, dirbak, outfiles, outbak, rstseg, runlog, rstleft, patched>>
files == <<disk, ninvoc, ninit, nmoved, nbak, bak0, pre>>
tiling == <<n_we, n_sn, min_n_per_proc, even_split, max_nslotsx, max_nslotsy,
            nprocs>>
gridvars == <<param_grid, add_params, param_names, expansion, fnames, nreps,
              runs>>
estim == <<test_run, conf_rt, conf_runtime_per_step_dict, conf_vmem,
           conf_vmem_per_grid_point, conf_vmem_min, resources, namelist,
           identical_runs, tiling, gridvars>>
vars == <<settings, phase, i, rep, confvars, IDr, rtri, last_id, resched_i,
          pool, history, files, estim>>

use_job_scheduler == job_scheduler # "none"

\* ------------------------------------------------------- list helpers
RECURSIVE Sum(_)
Sum(s) == IF s = <<>> THEN 0 ELSE Head(s) + Sum(Tail(s))

RECURSIVE Max(_)
Max(s) == IF Len(s) = 1 THEN Head(s)
          ELSE LET m == Max(Tail(s)) IN IF Head(s) >= m THEN Head(s) ELSE m

\* l[:-1]
ButLast(s) == IF s = <<>> THEN <<>> ELSE SubSeq(s, 1, Len(s) - 1)

RECURSIVE Concat(_)
Concat(ss) == IF ss = <<>> THEN <<>> ELSE Head(ss) \o Concat(Tail(ss))

Range(s) == {s[k] : k \in DOMAIN s}
NoDup(s) == \A a, b \in DOMAIN s : a # b => s[a] # s[b]

\* --------------------------------------------- submit_jobs, per configuration
\* lines 240-242: a 1x1 tiling is replaced by the serial sentinel (-1,-1)
\* the sentinel is set as soon as one axis has one slot
TileNxEither(px, py) == IF px = 1 \/ py = 1 THEN -1 ELSE px

TileNx(px, py) == IF px = 1 /\ py = 1 THEN -1 ELSE px
TileNy(px, py) == IF px = 1 /\ py = 1 THEN -1 ELSE py

\* line 243: nslotsi = nx*ny
SlotCount(tx, ty) == tx * ty

\* lines 278-284: misc_tools.set_vmem_rt is consulted only with a job scheduler;
\* skip is its "no runtime / no vmem estimate" result
SkipConfig(ujs, estimate_found) == ujs /\ ~estimate_found

\* line 284 with line 266: vmemi stays None unless conf.request_vmem;
\* misc_tools.set_vmem_rt scales the per-slot value v by the slot count
VmemOf(ujs, req, v, ns) == IF ujs /\ req THEN v * ns ELSE None

\* --------------------------------------------- submit_jobs, per repetition
\* misc_tools.prepare_restart: the value it returns (None: nothing to restart),
\* or Raised when run.log cannot be opened or the namelist patch fails.
\* dh is the time from the newest restart file to end_time, in hours.
PrepareRestart(haslog, complete, hasrst, dh, patch_ok) ==
    IF ~haslog THEN Raised
    ELSE IF complete THEN None
    ELSE IF ~hasrst THEN None
    ELSE IF dh <= 0 THEN None
    ELSE IF ~patch_ok THEN Raised
    ELSE dh

\* lines 390-408: the skip flag of a repetition in run or restart mode;
\* rh is the value prepare_restart returned (restart mode only)
SkipRun(initd, rst, rh, outexist, ex) ==
    \/ ~initd
    \/ rst /\ (rh = None \/ rh <= 0)
    \/ ~rst /\ outexist /\ ex = "s"

\* lines 403-423: an undefined -e value raises once output files are found
ExistRaises(rst, outexist, ex) ==
    ~rst /\ outexist /\ ex \notin {"s", "o", "b"}

\* the entries of a skipped repetition stay in the lists
PopSkippedNot(l) == l

\* lines 431-433: a skipped repetition takes its entries out again
PopSkipped(l) == ButLast(l)

\* lines 427-429
LastId(r, nrep, ci, n) == (r = nrep - 1) /\ (ci = n - 1)

\* the last repetition always goes on to the submission
SkipContinueNotLast(last, npending) == ~last

\* line 435: a skipped repetition leaves the loop body unless it is the last
\* one and runs are pending
SkipContinue(last, npending) == ~last \/ npending = 0

\* line 441: runtime of the run in seconds (rt_per_timestep/dt_f*3600 is the
\* runtime per simulated hour)
RunTime(rtph, hours) == rtph * hours

\* the pool is submitted only once it is too large
SubmitNowStrict(pj, total, psize, last) == ~pj \/ total > psize \/ last

\* runs are gathered even though pooling is off
SubmitNowPooled(pj, total, psize, last) == total >= psize \/ last

\* line 444: submit the current pool now
SubmitNow(pj, total, psize, last) == ~pj \/ total >= psize \/ last

\* a pool that just fills pool_size is too large
TooLargeAtSize(pj, total, psize) == pj /\ total >= psize

\* line 448: the pool is too large
TooLarge(pj, total, psize) == pj /\ total > psize

\* the last job is cut out of any pool
CanCutAlways(n) == n >= 1

\* lines 449-455: the last job can be cut out
CanCut(n) == n > 1

\* lines 456-457: only SGE refuses a single job larger than the pool
SingleRaises(js) == js = "sge"

\* lines 503-507
SignalRaises(rtr_max, signal) == rtr_max < signal

\* misc_tools.format_timedelta (lines 120-124): td, in ticks, as whole hours,
\* minutes and seconds; divmod and int() drop the fraction of a second
FormatTimedelta(td) ==
    LET hours == td \div (3600 * TicksPerSecond)
        remainder == td % (3600 * TicksPerSecond)
        minutes == remainder \div (60 * TicksPerSecond)
        seconds == remainder % (60 * TicksPerSecond)
    IN <<hours, minutes, seconds \div TicksPerSecond>>

\* the memory per slot is rounded up
VmempCeil(vm, ns) == (Sum(vm) + Sum(ns) - 1) \div Sum(ns)

\* line 499: vmemp = int(sum(vmem)/sum(nslots))
Vmemp(vm, ns) == Sum(vm) \div Sum(ns)

\* lines 537-538: the command is executed unless check_args
Executes(chk) == ~chk

\* a run directory is kept under -e s whether initialized or not
InitSkipsAnyDir(direxists, marker, ex) == direxists /\ ex = "s"

\* lines 306-312: in init mode an initialized run directory is kept under -e s
InitSkips(direxists, marker, ex) == direxists /\ ex = "s" /\ marker

\* lines 308-327: an undefined -e value raises once the run directory is found
InitRaises(direxists, ex) == direxists /\ ex \notin {"s", "o", "b"}

\* lines 317-325: the run directory is moved to a backup under -e b
InitBackup(direxists, ex) == direxists /\ ex = "b"

\* lines 411-421: existing output files are moved to backups under -e b
OutBackup(rst, outexist, ex) == ~rst /\ outexist /\ ex = "b"

\* misc_tools.prepare_restart, lines 852-896: the restart is prepared, the
\* previous output moved to rst/
RestartMoves(haslog, complete, hasrst, dh) ==
    haslog /\ ~complete /\ hasrst /\ dh > 0

\* lines 322-324 and 418-420 (misc_tools.py 894-896 for rst/): the while loop
\* that looks for the first index not in use, counting up from k
RECURSIVE BkIndFrom(_, _)
BkIndFrom(used, k) == IF k \in used THEN BkIndFrom(used, k + 1) ELSE k

\* the backup index is the number of backups found
BkIndCount(used) == Cardinality(used)

\* lines 321-325 and 417-421: bk_ind, the index of the new backup
BkInd(used) == BkIndFrom(used, 0)

\* every segment is written to index 0
RstIndFirst(used) == 0

\* misc_tools.py lines 893-897: rst_ind, the index of the new segment in rst/
RstInd(used) == BkIndFrom(used, 0)

\* init.log is not looked at
InitFailsNever(ok) == FALSE

\* lines 379-387: init.log without the success line raises
InitFails(ok) == ~ok

\* the current run stays in the pool after every submission
NextPoolKeep(resched, one) == <<one>>

\* lines 553-569: the pool after a submission
NextPool(resched, one) == IF resched THEN <<one>> ELSE <<>>

\* the rescheduled last run is never submitted
IterateNever(resched, last) == FALSE

\* lines 561-563: one more pass of "while iterate"
Iterate(resched, last) == resched /\ last

\* --------------------------------------------- misc_tools.set_vmem_rt
RtBuffer == 2       \* conf.rt_buffer
VmemBuffer == 2     \* conf.vmem_buffer
RtTest == 1         \* conf.rt_test, in minutes
VmemTest == 1       \* conf.vmem_test
Dt == 3600          \* args["dt"]: the time step of the namelist, in seconds
GridPoints == 5     \* args["e_we"]*args["e_sn"]

\* line 537: n_steps = 3600*run_hours/dt
NSteps(hours) == (3600 * hours) \div Dt

\* lines 542 and 545: conf.rt_test and conf.rt are minutes (*60)
MinutesToTicks(m) == m * 60 * TicksPerSecond

\* line 546: the entry of conf.runtime_per_step_dict for r = args["dx"]
DictEntry(dict, r) == IF r \in DOMAIN dict THEN dict[r] ELSE None

\* the lookup table is read before conf.rt
RuntimePerStepTableFirst(test, rt, dict, r, ident_rt, hours) ==
    IF test THEN (MinutesToTicks(RtTest) \div NSteps(hours)) \div RtBuffer
    ELSE IF DictEntry(dict, r) # None THEN DictEntry(dict, r)
    ELSE IF rt # None THEN MinutesToTicks(rt) \div RtBuffer
    ELSE ident_rt

\* lines 541-558: runtime_per_step in ticks, or None; ident_rt is the mean
\* timing of the identical runs (None without identical runs or timings)
RuntimePerStep(test, rt, dict, r, ident_rt, hours) ==
    IF test THEN (MinutesToTicks(RtTest) \div NSteps(hours)) \div RtBuffer
    ELSE IF rt # None THEN MinutesToTicks(rt) \div RtBuffer
    ELSE IF DictEntry(dict, r) # None THEN DictEntry(dict, r)
    ELSE ident_rt

\* line 566: args["rt_per_timestep"], set unless the runtime part skips
RtPerTimestep(rps) == IF rps = None THEN None ELSE rps * RtBuffer

\* lines 574-597: vmemi for all slots, or None; pgp2 is twice
\* conf.vmem_per_grid_point, ident_vmem the maximum over the identical runs
\* (None when get_vmem finds nothing); max(a/nslots, vmin)*nslots is
\* max(a, vmin*nslots)
VmemTotal(test, vm, pgp2, vmin, ident_vmem, ns) ==
    LET int == (pgp2 * GridPoints) \div 2
        perslots == IF test THEN VmemTest * ns
                    ELSE IF vm # None THEN vm * ns
                    ELSE IF pgp2 # None
                         THEN (IF vmin # None /\ vmin * ns > int
                               THEN vmin * ns ELSE int)
                    ELSE IF ident_vmem # None THEN ident_vmem * ns
                    ELSE None
    IN IF perslots = None THEN None ELSE perslots * VmemBuffer

\* a missing vmem estimate does not skip
SkipRuntimeOnly(rps, vmt) == rps = None

\* lines 560-562 and 591-593: skip
Skip(rps, vmt) == rps = None \/ vmt = None

\* lines 531-603: what set_vmem_rt returns (args and skip)
SetVmemRt(test, rt, dict, r, ident_rt, vm, pgp2, vmin, ident_vmem, hours, ns) ==
    LET rps == RuntimePerStep(test, rt, dict, r, ident_rt, hours)
        vmt == VmemTotal(test, vm, pgp2, vmin, ident_vmem, ns)
    IN [skip |-> Skip(rps, vmt),
        rt_per_timestep |-> RtPerTimestep(rps),
        \* line 601: args["vmem"] is set only without skip
        vmem |-> IF Skip(rps, vmt) THEN None ELSE vmt]


\* --------------------------------------------- misc_tools.get_identical_runs
Dirs == 1..NDirs
\* the parameters the namelists explored can hold
Params == {"start_hour", "end_hour", "history_outname", "mp_physics"}
\* what get_namelist.namelist_to_dict can return for these parameters
Namelists == UNION {[K -> 1..MaxVal] : K \in SUBSET Params}

\* lines 442-443
ignore_params == {"start_year", "start_month", "start_day", "start_hour",
                  "start_minute", "run_hours", "_outname"}

\* a parameter of only one namelist is not compared
IdenticalCommon(namelist_ref, namelist_r) ==
    \A param \in (DOMAIN namelist_r) \cap (DOMAIN namelist_ref) :
        param \notin ignore_params => namelist_ref[param] = namelist_r[param]

\* lines 459-465: identical after the loop over the parameters of both
Identical(namelist_ref, namelist_r) ==
    \A param \in (DOMAIN namelist_r) \cup (DOMAIN namelist_ref) :
        param \notin ignore_params =>
            ~ (\/ param \notin DOMAIN namelist_r
               \/ param \notin DOMAIN namelist_ref
               \/ namelist_ref[param] # namelist_r[param])

\* lines 423-471: the runs of the search path (every directory there holds a
\* namelist.input) judged identical to run_dir; the order of the list is
\* that of os.walk
GetIdenticalRuns(run_dir) ==
    {r \in Dirs : Identical(namelist[run_dir], namelist[r])}

\* --------------------------------------------- misc_tools.grid_combinations
RunID == 99         \* conf.runID
BaseValue == 9      \* the value of every base parameter in add_params

\* the lists of values a parameter can have
Lists == UNION {[1..n -> 1..MaxVal] : n \in 0..MaxLen}
\* a parameter varied alone; a composite of two sub-parameters
ListAxes == {[dict |-> FALSE, vals |-> <<l>>] : l \in Lists}
DictAxes == {[dict |-> TRUE, vals |-> <<l1, l2>>] : l1, l2 \in Lists}
Grids == UNION {[1..n -> ListAxes \cup DictAxes] : n \in 0..MaxAxes}

\* parameter names: <<k, 0>> is the k-th parameter of param_grid, <<k, 1>> and
\* <<k, 2>> the sub-parameters of a composite, <<k, 3>> its <name>_idx;
\* <<0, 0>> is a parameter of add_params only
IdxKey(k) == <<k, 3>>

\* lines 173 and 181: what an axis appends to params
AxisParams(k, ax) ==
    IF ax.dict THEN << <<k, 1>>, <<k, 2>>, IdxKey(k) >> ELSE << <<k, 0>> >>

\* no composite is ever refused
LensDifferNever(ax) == FALSE

\* lines 169-170: (lens[0] != lens).any()
LensDiffer(ax) == \E j \in DOMAIN ax.vals : Len(ax.vals[j]) # Len(ax.vals[1])

MinLen(ll) == CHOOSE n \in {Len(ll[j]) : j \in DOMAIN ll} :
                  \A j \in DOMAIN ll : n <= Len(ll[j])

\* the second and later lists are read from their end
TransposeReversed(ll) ==
    [n \in 1..MinLen(ll) |->
        [j \in DOMAIN ll |-> IF j = 2 THEN ll[j][Len(ll[j]) + 1 - n] ELSE ll[j][n]]]

\* lines 61-76: transpose_list, list(map(list, zip(*l))) for a non-empty l
Transpose(ll) == [n \in 1..MinLen(ll) |-> [j \in DOMAIN ll |-> ll[j][n]]]

\* lines 172 and 176: the rows of an axis in d; a value varied alone is a row
\* of one entry, as flatten_list makes it
AxisRows(ax) ==
    IF ax.dict
    THEN Transpose(ax.vals \o << [n \in 1..Len(ax.vals[1]) |-> n - 1] >>)
    ELSE [n \in 1..Len(ax.vals[1]) |-> <<ax.vals[1][n]>>]

\* the first axis varies fastest
RECURSIVE ProductFirstFastest(_)
ProductFirstFastest(d) ==
    IF d = <<>> THEN << <<>> >>
    ELSE LET rest == ProductFirstFastest(Tail(d))
         IN Concat([m \in 1..Len(rest) |->
                      [n \in 1..Len(Head(d)) |-> <<Head(d)[n]>> \o rest[m]]])

\* the last row of every axis is left out
RECURSIVE ProductShort(_)
ProductShort(d) ==
    IF d = <<>> THEN << <<>> >>
    ELSE LET rest == ProductShort(Tail(d))
         IN Concat([n \in 1..(Len(Head(d)) - 1) |->
                      [m \in 1..Len(rest) |-> <<Head(d)[n]>> \o rest[m]]])

\* line 183: list(itertools.product(*d.values())), the last axis fastest
RECURSIVE Product(_)
Product(d) ==
    IF d = <<>> THEN << <<>> >>
    ELSE LET rest == Product(Tail(d))
         IN Concat([n \in 1..Len(Head(d)) |->
                      [m \in 1..Len(rest) |-> <<Head(d)[n]>> \o rest[m]]])

\* line 186: odict(zip(params, c)), as (key, value) pairs in order
Zip(ks, c) ==
    [n \in 1..(IF Len(ks) <= Len(c) THEN Len(ks) ELSE Len(c)) |-> <<ks[n], c[n]>>]

Keys(comb) == {comb[n][1] : n \in DOMAIN comb}
ValueOf(comb, key) == comb[CHOOSE n \in DOMAIN comb : comb[n][1] = key][2]

\* a base parameter replaces the value of the grid
RECURSIVE MergeOverwrite(_, _)
MergeOverwrite(comb, add) ==
    IF add = <<>> THEN comb
    ELSE MergeOverwrite(
            IF Head(add)[1] \in Keys(comb)
            THEN [n \in DOMAIN comb |->
                    IF comb[n][1] = Head(add)[1] THEN Head(add) ELSE comb[n]]
            ELSE Append(comb, Head(add)),
            Tail(add))

\* lines 189-194: the parameters of add_params a combination does not hold
RECURSIVE Merge(_, _)
Merge(comb, add) ==
    IF add = <<>> THEN comb
    ELSE Merge(IF Head(add)[1] \in Keys(comb) THEN comb
               ELSE Append(comb, Head(add)),
               Tail(add))

\* lines 162-200: grid_combinations(param_grid, add_params); combs and
\* combs_full, or the ValueError of line 171
GridCombinations(grid, add) ==
    IF \E k \in DOMAIN grid : grid[k].dict /\ LensDiffer(grid[k])
    THEN [raised |-> TRUE, combs |-> <<>>, combs_full |-> <<>>]
    ELSE LET params == Concat([k \in DOMAIN grid |-> AxisParams(k, grid[k])])
             d == [k \in DOMAIN grid |-> AxisRows(grid[k])]
             product == Product(d)
             combs == [n \in DOMAIN product |-> Zip(params, Concat(product[n]))]
         IN [raised |-> FALSE, combs |-> combs,
             combs_full |-> [n \in DOMAIN combs |-> Merge(combs[n], add)]]

\* --------------------------------------------- misc_tools.output_id_from_config
\* the label param_names gives to position pos (from 0) of parameter k:
\* names.labels lists the labels of a parameter by position
Label(names, k, pos) == 10 * k + names.labels[pos + 1]

\* line 239: param_grid[p].index(v)
IndexOf(l, v) == (CHOOSE n \in DOMAIN l : l[n] = v /\ \A m \in 1..(n - 1) : l[m] # v) - 1

Without(ID, ks) == SelectSeq(ID, LAMBDA e : e[1] \notin ks)

\* lines 224-239 for parameter k of param_grid
LabelAxis(ID, k, ax, names) ==
    LET ID1 == IF ax.dict THEN Without(ID, {<<k, 1>>, <<k, 2>>}) ELSE ID
    IN IF ~names.none /\ k \in names.of
       THEN IF ax.dict
            THEN Without(Append(ID1, << <<k, 0>>, Label(names, k, ValueOf(ID1, IdxKey(k))) >>),
                         {IdxKey(k)})
            ELSE [n \in DOMAIN ID1 |->
                    IF ID1[n][1] = <<k, 0>>
                    THEN << <<k, 0>>, Label(names, k, IndexOf(ax.vals[1], ID1[n][2])) >>
                    ELSE ID1[n]]
       ELSE ID1

RECURSIVE LabelFrom(_, _, _, _)
LabelFrom(ID, k, grid, names) ==
    IF k > Len(grid) THEN ID
    ELSE LabelFrom(LabelAxis(ID, k, grid[k], names), k + 1, grid, names)

\* lines 226-227: composite parameters need param_names
IdRaises(grid, names) == names.none /\ \E k \in DOMAIN grid : grid[k].dict

\* lines 223-245: ID_str, as the values joined by "_" after runID
OutputIdFromConfig(param_comb, grid, names) ==
    LET ID == LabelFrom(param_comb, 1, grid, names)
    IN <<RunID>> \o [n \in DOMAIN ID |-> ID[n][2]]

\* the repetition is not appended
RunIdNoRep(IDi, r) == IDi

\* line 303: IDr = IDi + "_" + str(rep)
RunId(IDi, r) == Append(IDi, r)

\* lines 166 and 304: run_dir_r = run_path/WRF_<IDi>_<rep>
RunDir(IDi, r) == [pre |-> "WRF", id |-> IDi, rep |-> r]

\* grid_combinations is not followed
NoGrid ==
    /\ param_grid = <<>> /\ add_params = <<>>
    /\ param_names = [none |-> TRUE, of |-> {}, labels |-> <<>>]
    /\ expansion = <<>> /\ fnames = <<>> /\ nreps = <<>> /\ runs = <<>>

\* --------------------------------------------- misc_tools.find_nproc
\* lines 53-54: the first d of np.arange(d, n+1) that divides n
RECURSIVE FirstDivisor(_, _)
FirstDivisor(n, d) == IF n % d = 0 THEN d ELSE FirstDivisor(n, d + 1)

\* the search for a divisor starts above min_n_per_proc
FindNprocNext(n, minn, even) ==
    IF n <= minn THEN 1
    ELSE IF even THEN n \div FirstDivisor(n, minn + 1)
    ELSE n \div minn

\* the quotient is rounded up
FindNprocCeil(n, minn, even) ==
    IF n <= minn THEN 1
    ELSE IF even THEN n \div FirstDivisor(n, minn)
    ELSE (n + minn - 1) \div minn

\* the search for a divisor ends below n, and without one nothing is returned
FindNprocProper(n, minn, even) ==
    IF n <= minn THEN 1
    ELSE IF even
         THEN LET ds == {d \in minn..(n - 1) : n % d = 0}
              IN IF ds = {} THEN None
                 ELSE n \div (CHOOSE d \in ds : \A e \in ds : d <= e)
    ELSE n \div minn

\* lines 31-57: find_nproc(n, min_n_per_proc, even_split)
FindNproc(n, minn, even) ==
    IF n <= minn THEN 1
    ELSE IF even THEN n \div FirstDivisor(n, minn)
    ELSE n \div minn

\* lines 235-238: min(conf.max_nslotsx, nx) unless the cap is None
Capped(cap, n) == IF cap # None /\ cap < n THEN cap ELSE n

\* the tiling is not followed
NoTiling ==
    /\ n_we = 0 /\ n_sn = 0 /\ min_n_per_proc = 0 /\ even_split = FALSE
    /\ max_nslotsx = None /\ max_nslotsy = None /\ nprocs = <<>>
    /\ NoGrid

\* the estimates and the namelists are not looked up
NoLookup ==
    /\ test_run = FALSE /\ conf_rt = None
    /\ conf_runtime_per_step_dict = <<>>
    /\ conf_vmem = None /\ conf_vmem_per_grid_point = None
    /\ conf_vmem_min = None
    /\ resources = <<>>
    /\ namelist = <<>> /\ identical_runs = <<>>
    /\ NoTiling

TypeOK ==
    /\ job_scheduler \in Schedulers
    /\ pool_jobs \in BOOLEAN /\ restart \in BOOLEAN /\ check_args \in BOOLEAN
    /\ init \in BOOLEAN
    /\ request_vmem \in BOOLEAN
    /\ pool_size \in 2..MaxPoolSize
    /\ exist \in ExistValues
    /\ ncombs \in 1..NConf
    /\ phase \in {"conf", "rep", "flush", "done", "error"}
    /\ Len(vmem) = Len(nslots) /\ Len(nxny) = Len(nslots)

Init ==
    /\ job_scheduler \in Schedulers
    \* lines 121-124: SLURM with conf.force_pool turns pooling on
    /\ \E pool_arg, force_pool \in BOOLEAN :
          pool_jobs = (pool_arg \/ (job_scheduler = "slurm" /\ force_pool))
    \* conf.pool_size is read only when pooling
    /\ pool_size \in (IF pool_jobs THEN 2..MaxPoolSize ELSE {MaxPoolSize})
    /\ init = FALSE
    /\ restart \in BOOLEAN
    \* the -e value is read in run mode only (lines 403-423)
    /\ exist \in (IF restart THEN {"s"} ELSE ExistValues)
    /\ check_args \in BOOLEAN
    \* lines 493-496: the signal time of the mode in use; read only with a
    \* job scheduler, as is conf.request_vmem, which the runs explored set
    /\ send_rt_signal \in (IF use_job_scheduler THEN 1..MaxSignal ELSE {1})
    /\ request_vmem = use_job_scheduler
    /\ ncombs \in 1..NConf
    /\ phase = "conf"
    /\ i = 0 /\ rep = 0
    /\ nx = 0 /\ ny = 0 /\ nslotsi = 0 /\ vmemi = None
    /\ rt_per_hour = 0 /\ run_hours = 0 /\ n_rep = 0
    /\ IDr = <<>> /\ rtri = None /\ last_id = FALSE /\ resched_i = FALSE
    \* lines 137-141
    /\ IDs = <<>> /\ rtr = <<>> /\ vmem = <<>> /\ nslots = <<>> /\ nxny = <<>>
    /\ accepted = <<>> /\ skipped = {} /\ submitted = <<>> /\ nexec = 0
    /\ niter = 0 /\ err = "" /\ cutoff = {} /\ configs = <<>>
    /\ estimates = <<>>
    \* the directories are read through the inputs of the actions
    /\ rundir = <<>> /\ dirbak = <<>> /\ outfiles = <<>> /\ outbak = <<>>
    /\ rstseg = <<>> /\ runlog = <<>> /\ rstleft = <<>> /\ patched = <<>>
    /\ ninvoc = 1 /\ ninit = 0 /\ nmoved = 0 /\ nbak = <<>> /\ bak0 = {}
    /\ pre = <<>>
    /\ NoLookup

\* the position after the loop body for repetition r of configuration ci
AfterRep(r, nrep, ci, n) ==
    IF r + 1 < nrep THEN [phase |-> "rep", i |-> ci, rep |-> r + 1]
    ELSE IF ci + 1 < n THEN [phase |-> "conf", i |-> ci + 1, rep |-> 0]
    ELSE [phase |-> "done", i |-> ci, rep |-> r]

\* the position after "continue" at line 282
AfterConfig(ci, n) ==
    IF ci + 1 < n THEN [phase |-> "conf", i |-> ci + 1, rep |-> 0]
    ELSE [phase |-> "done", i |-> ci, rep |-> 0]

\* lines 160-297: one pass of the configuration loop up to the repetition loop,
\* for what find_nproc (px, py), the namelist (nrep, hours) and
\* misc_tools.set_vmem_rt (estimate_found, rtph, v) yield
ConfigureWith(estimate_found, px, py, nrep, hours, rtph, v) ==
    /\ phase = "conf"
    /\ nx' = TileNx(px, py)
    /\ ny' = TileNy(px, py)
    /\ nslotsi' = SlotCount(TileNx(px, py), TileNy(px, py))
    /\ run_hours' = hours
    /\ configs' = Append(configs,
            [nx |-> TileNx(px, py), ny |-> TileNy(px, py),
             nslots |-> SlotCount(TileNx(px, py), TileNy(px, py)),
             vmem |-> IF init \/ SkipConfig(use_job_scheduler, estimate_found)
                      THEN None
                      ELSE VmemOf(use_job_scheduler, request_vmem, v,
                                  SlotCount(TileNx(px, py), TileNy(px, py)))])
    \* lines 267-284: set_vmem_rt is not called in init mode
    /\ IF ~init /\ SkipConfig(use_job_scheduler, estimate_found)
       THEN /\ phase' = AfterConfig(i, ncombs).phase
            /\ i' = AfterConfig(i, ncombs).i
            /\ skipped' = skipped \cup {<<i, r>> : r \in 0..(nrep - 1)}
            /\ UNCHANGED <<vmemi, rt_per_hour, n_rep>>
       ELSE /\ skipped' = skipped /\ phase' = "rep"
            /\ i' = i
            /\ vmemi' = IF init THEN None
                         ELSE VmemOf(use_job_scheduler, request_vmem, v,
                                     SlotCount(TileNx(px, py), TileNy(px, py)))
            /\ rt_per_hour' = IF use_job_scheduler /\ ~init THEN rtph ELSE 0
            /\ n_rep' = nrep
    /\ rep' = 0
    /\ UNCHANGED <<settings, IDr, rtri, last_id, resched_i, pool, accepted,
                   submitted, nexec, niter, err, cutoff, estimates>>

\* one pass of the configuration loop for any outcome of the estimates
Configure ==
    /\ \E estimate_found \in (IF use_job_scheduler THEN BOOLEAN ELSE {TRUE}) :
       \* a configuration without estimate is left at once: one tiling is tried
       \E px \in (IF estimate_found THEN 1..MaxNProc ELSE {1}) :
       \* domains at least as long in x as in y
       \E py \in 1..px,
          nrep \in (IF estimate_found THEN 1..MaxRep ELSE {1}),
          \* every configuration simulates MaxHours hours (line 185); a
          \* restart covers what is left of them
          hours \in {MaxHours},
          \* the runtime and vmem estimates are made only with a job scheduler
          rtph \in (IF use_job_scheduler /\ estimate_found THEN 1..MaxRt ELSE {1}),
          v \in (IF use_job_scheduler /\ request_vmem /\ estimate_found
                 THEN 1..MaxVmem ELSE {1}) :
        ConfigureWith(estimate_found, px, py, nrep, hours, rtph, v)
    /\ UNCHANGED <<files, estim>>

\* lines 298-457 in run and restart mode: the body of the repetition loop up
\* to the submission loop, for what the run directory and the output path hold
RepetitionWith(initd, haslog, complete, hasrst, dh, patch_ok, outexist) ==
    /\ phase = "rep" /\ ~init
    /\ LET id == <<i, rep>>
           \* lines 299-301
           vmem1 == Append(vmem, vmemi)
           nslots1 == Append(nslots, nslotsi)
           nxny1 == Append(nxny, <<nx, ny>>)
           \* lines 395-396
           rh == IF restart
                 THEN PrepareRestart(haslog, complete, hasrst, dh, patch_ok)
                 ELSE run_hours
           early == IF restart /\ rh = Raised THEN "restart"
                    ELSE IF ExistRaises(restart, outexist, exist) THEN "exist"
                    ELSE ""
           skip == SkipRun(initd, restart, rh, outexist, exist)
           last == LastId(rep, n_rep, i, ncombs)
           \* lines 430-442
           vmem2 == IF skip THEN PopSkipped(vmem1) ELSE vmem1
           nslots2 == IF skip THEN PopSkipped(nslots1) ELSE nslots1
           nxny2 == IF skip THEN PopSkipped(nxny1) ELSE nxny1
           IDs2 == IF skip THEN IDs ELSE Append(IDs, id)
           rtri2 == IF skip THEN rtri
                    ELSE IF use_job_scheduler THEN RunTime(rt_per_hour, rh)
                    ELSE None
           rtr2 == IF skip \/ ~use_job_scheduler THEN rtr ELSE Append(rtr, rtri2)
           leave == skip /\ SkipContinue(last, Len(nslots2))
           \* lines 444-457
           submit == ~leave /\ SubmitNow(pool_jobs, Sum(nslots2), pool_size, last)
           large == submit /\ TooLarge(pool_jobs, Sum(nslots2), pool_size)
           cut == large /\ CanCut(Len(nslots2))
           late == large /\ ~cut /\ SingleRaises(job_scheduler)
           next == AfterRep(rep, n_rep, i, ncombs)
       IN
       IF early # ""
       THEN /\ phase' = "error"
            /\ err' = early
            /\ UNCHANGED <<i, rep, confvars, IDr, rtri, last_id, resched_i, pool,
                           accepted, skipped, submitted, nexec, niter, cutoff,
                           configs, estimates>>
       ELSE /\ IDr' = id
            /\ rtri' = rtri2
            /\ last_id' = last
            /\ resched_i' = IF submit THEN cut ELSE resched_i
            /\ IDs' = IF cut THEN ButLast(IDs2) ELSE IDs2
            /\ rtr' = IF cut THEN ButLast(rtr2) ELSE rtr2
            /\ vmem' = IF cut THEN ButLast(vmem2) ELSE vmem2
            /\ nslots' = IF cut THEN ButLast(nslots2) ELSE nslots2
            /\ nxny' = IF cut THEN ButLast(nxny2) ELSE nxny2
            /\ accepted' = IF skip THEN accepted ELSE Append(accepted, id)
            /\ estimates' = IF skip THEN estimates ELSE Append(estimates, rtri2)
            /\ skipped' = IF skip THEN skipped \cup {id} ELSE skipped
            /\ niter' = 0
            /\ err' = IF late THEN "pool_size" ELSE ""
            /\ phase' = IF late THEN "error"
                        ELSE IF submit THEN "flush" ELSE next.phase
            /\ i' = IF submit THEN i ELSE next.i
            /\ rep' = IF submit THEN rep ELSE next.rep
            \* run_hours keeps the value of line 185: what prepare_restart
            \* returned (rh) is read by line 441 of this pass alone
            /\ cutoff' = IF cut THEN cutoff \cup {id} ELSE cutoff
            /\ UNCHANGED <<confvars, submitted, nexec, configs>>
    /\ UNCHANGED settings

\* the body of the repetition loop for any content of the directories
Repetition ==
    /\ \E initd \in BOOLEAN,
          \* the files prepare_restart reads (restart mode only)
          haslog \in (IF restart THEN BOOLEAN ELSE {TRUE}) :
       \E complete \in (IF restart /\ haslog THEN BOOLEAN ELSE {FALSE}) :
       \E hasrst \in (IF restart /\ haslog /\ ~complete THEN BOOLEAN ELSE {TRUE}) :
       \E dh \in (IF restart /\ haslog /\ ~complete /\ hasrst
                  THEN 0..MaxHours ELSE {1}) :
       \E patch_ok \in (IF restart /\ haslog /\ ~complete /\ hasrst /\ dh > 0
                        THEN BOOLEAN ELSE {TRUE}),
          \* the output files line 402 looks for (run mode only)
          outexist \in (IF restart THEN {FALSE} ELSE BOOLEAN) :
        RepetitionWith(initd, haslog, complete, hasrst, dh, patch_ok, outexist)
    /\ UNCHANGED <<files, estim>>

\* lines 460-569: one pass of the "while iterate" loop
SubmitPool ==
    /\ phase = "flush"
    /\ LET fails == use_job_scheduler /\ SignalRaises(Max(rtr), send_rt_signal)
           again == Iterate(resched_i, last_id)
           next == AfterRep(rep, n_rep, i, ncombs)
       IN
       IF fails
       THEN /\ phase' = "error"
            /\ err' = "signal"
            /\ UNCHANGED <<i, rep, last_id, pool, accepted, skipped, submitted,
                           nexec, niter, cutoff, configs, estimates>>
       ELSE /\ submitted' = Append(submitted,
                                   [IDs |-> IDs, nslots |-> nslots, nxny |-> nxny,
                                    vmem |-> vmem, rtr |-> rtr,
                                    \* lines 498-503
                                    vmemp |-> IF use_job_scheduler /\ request_vmem
                                              THEN Vmemp(vmem, nslots) ELSE None,
                                    rtp |-> IF use_job_scheduler
                                            THEN FormatTimedelta(Max(rtr))
                                            ELSE <<>>])
            /\ nexec' = IF Executes(check_args) THEN nexec + 1 ELSE nexec
            /\ IDs' = NextPool(resched_i, IDr)
            /\ rtr' = NextPool(resched_i, rtri)
            /\ vmem' = NextPool(resched_i, vmemi)
            /\ nslots' = NextPool(resched_i, nslotsi)
            /\ nxny' = NextPool(resched_i, <<nx, ny>>)
            /\ last_id' = IF again THEN FALSE ELSE last_id
            /\ phase' = IF again THEN "flush" ELSE next.phase
            /\ i' = IF again THEN i ELSE next.i
            /\ rep' = IF again THEN rep ELSE next.rep
            /\ niter' = niter + 1
            /\ UNCHANGED <<accepted, skipped, err, cutoff, configs, estimates>>
    /\ UNCHANGED <<settings, confvars, IDr, rtri, resched_i>>

\* one pass of the "while iterate" loop, the jobs not looked at
Submit == SubmitPool /\ UNCHANGED <<files, estim>>

Next == Configure \/ Repetition \/ Submit

Spec == Init /\ [][Next]_vars

\* ------------------------------------------- invocations on one directory tree
\* submit_jobs is called again and again, without job scheduler, for one
\* configuration of NRepFS serial runs; the jobs it starts end before it goes on

\* what an invocation finds: every run initialized, every output file there
Found ==
    [allinit |-> \A id \in RunsFS : rundir[id] = "init",
     allout |-> \A id \in RunsFS : outfiles[id] = Streams]

FSInit ==
    /\ job_scheduler = "none"
    /\ pool_jobs \in BOOLEAN
    /\ pool_size = 2
    /\ \E m \in {"init", "run", "restart"} :
          /\ init = (m = "init") /\ restart = (m = "restart")
          \* in restart mode the -e value is not read: a defined and an
          \* undefined one
          /\ exist \in (IF m = "restart" THEN {"s", "a"} ELSE ExistValues)
    /\ check_args \in BOOLEAN
    /\ send_rt_signal = 1 /\ request_vmem = FALSE
    /\ ncombs = 1
    /\ phase = "conf"
    /\ i = 0 /\ rep = 0
    /\ nx = 0 /\ ny = 0 /\ nslotsi = 0 /\ vmemi = None
    /\ rt_per_hour = 0 /\ run_hours = 0 /\ n_rep = 0
    /\ IDr = <<>> /\ rtri = None /\ last_id = FALSE /\ resched_i = FALSE
    /\ IDs = <<>> /\ rtr = <<>> /\ vmem = <<>> /\ nslots = <<>> /\ nxny = <<>>
    /\ accepted = <<>> /\ skipped = {} /\ submitted = <<>> /\ nexec = 0
    /\ niter = 0 /\ err = "" /\ cutoff = {} /\ configs = <<>>
    /\ estimates = <<>>
    \* no run directory and no output yet; bak/ is empty or holds backups
    \* number 1 of every run directory and of the files of the first stream
    /\ bak0 \in {{}, {1}}
    /\ rundir = [id \in RunsFS |-> "none"]
    /\ dirbak = [id \in RunsFS |-> bak0]
    /\ outfiles = [id \in RunsFS |-> {}]
    /\ outbak = [id \in RunsFS |-> [st \in Streams |-> IF st = 1 THEN bak0 ELSE {}]]
    /\ rstseg = [id \in RunsFS |-> [st \in Streams |-> {}]]
    /\ runlog = [id \in RunsFS |-> "none"]
    /\ rstleft = [id \in RunsFS |-> None]
    /\ patched = [id \in RunsFS |-> FALSE]
    /\ ninvoc = 1 /\ ninit = 0 /\ nmoved = 0
    /\ nbak = [id \in RunsFS |-> [dir |-> 0, out |-> [st \in Streams |-> 0]]]
    /\ pre = [allinit |-> FALSE, allout |-> FALSE]
    /\ NoLookup

\* lines 23-141: submit_jobs is called once more on the same directories
Invoke ==
    /\ phase \in {"done", "error"}
    /\ ninvoc < MaxInvoc
    /\ \E m \in {"init", "run", "restart"} :
          /\ init' = (m = "init") /\ restart' = (m = "restart")
          /\ exist' \in (IF m = "restart" THEN {"s", "a"} ELSE ExistValues)
    /\ check_args' \in BOOLEAN
    /\ phase' = "conf"
    /\ i' = 0 /\ rep' = 0
    /\ nx' = 0 /\ ny' = 0 /\ nslotsi' = 0 /\ vmemi' = None
    /\ rt_per_hour' = 0 /\ run_hours' = 0 /\ n_rep' = 0
    /\ IDr' = <<>> /\ rtri' = None /\ last_id' = FALSE /\ resched_i' = FALSE
    /\ IDs' = <<>> /\ rtr' = <<>> /\ vmem' = <<>> /\ nslots' = <<>> /\ nxny' = <<>>
    /\ accepted' = <<>> /\ skipped' = {} /\ submitted' = <<>> /\ nexec' = 0
    /\ niter' = 0 /\ err' = "" /\ cutoff' = {} /\ configs' = <<>>
    /\ estimates' = <<>>
    /\ ninvoc' = ninvoc + 1 /\ ninit' = 0 /\ nmoved' = 0
    /\ pre' = Found
    /\ UNCHANGED <<job_scheduler, pool_jobs, pool_size, send_rt_signal,
                   request_vmem, ncombs, disk, nbak, bak0, estim>>

\* lines 160-297 for the configuration followed: serial runs, no estimates
ConfigureFS ==
    /\ ConfigureWith(TRUE, 1, 1, NRepFS, MaxHours, 1, 1)
    /\ UNCHANGED <<files, estim>>

\* lines 298-387 in init mode: the body of the repetition loop, for what the
\* run directory holds and how the init job ends
InitializeWith(direxists, marker, ok) ==
    /\ phase = "rep" /\ init
    /\ LET id == <<i, rep>>
           raises == InitRaises(direxists, exist)
           skip == ~raises /\ InitSkips(direxists, marker, exist)
           run == ~raises /\ ~skip /\ Executes(check_args)
           failed == run /\ InitFails(ok)
           next == AfterRep(rep, n_rep, i, ncombs)
       IN
       \* lines 299-303
       /\ vmem' = Append(vmem, vmemi)
       /\ nslots' = Append(nslots, nslotsi)
       /\ nxny' = Append(nxny, <<nx, ny>>)
       /\ IDr' = id
       /\ skipped' = IF skip THEN skipped \cup {id} ELSE skipped
       /\ ninit' = IF run THEN ninit + 1 ELSE ninit
       /\ err' = IF raises THEN "exist" ELSE IF failed THEN "init" ELSE ""
       /\ phase' = IF raises THEN "error" ELSE IF failed THEN "error"
                   ELSE next.phase
       /\ i' = IF raises THEN i ELSE IF failed THEN i ELSE next.i
       /\ rep' = IF raises THEN rep ELSE IF failed THEN rep ELSE next.rep
    /\ UNCHANGED <<settings, confvars, rtri, last_id, resched_i, IDs, rtr,
                   accepted, submitted, nexec, niter, cutoff, configs, estimates>>

\* the body of the repetition loop in init mode, on the directories
InitializeFS ==
    /\ phase = "rep" /\ init
    /\ LET id == <<i, rep>>
           direxists == rundir[id] # "none"
           marker == rundir[id] = "init"
           raises == InitRaises(direxists, exist)
           skip == ~raises /\ InitSkips(direxists, marker, exist)
           backup == ~raises /\ InitBackup(direxists, exist)
           run == ~raises /\ ~skip /\ Executes(check_args)
       IN
       \E ok \in (IF run THEN BOOLEAN ELSE {TRUE}) :
          /\ InitializeWith(direxists, marker, ok)
          \* lines 317-325
          /\ dirbak' = IF backup
                        THEN [dirbak EXCEPT ![id] = @ \cup {BkInd(@)}]
                        ELSE dirbak
          /\ nbak' = IF backup THEN [nbak EXCEPT ![id].dir = @ + 1] ELSE nbak
          /\ nmoved' = IF backup THEN nmoved + 1 ELSE nmoved
          \* lines 377-387: init_wrf.job sets up the run directory anew
          /\ rundir' = [rundir EXCEPT ![id] =
                            IF run THEN (IF ok THEN "init" ELSE "dir")
                            ELSE IF backup THEN "none" ELSE @]
          /\ runlog' = [runlog EXCEPT ![id] =
                            IF run THEN "none" ELSE IF backup THEN "none" ELSE @]
          /\ rstleft' = [rstleft EXCEPT ![id] =
                            IF run THEN None ELSE IF backup THEN None ELSE @]
          /\ patched' = [patched EXCEPT ![id] =
                            IF run THEN FALSE ELSE IF backup THEN FALSE ELSE @]
    /\ UNCHANGED <<outfiles, outbak, rstseg, ninvoc, bak0, pre, estim>>

\* the body of the repetition loop in run and restart mode, on the directories
RepetitionFS ==
    /\ phase = "rep" /\ ~init
    /\ LET id == <<i, rep>>
           initd == rundir[id] = "init"
           haslog == runlog[id] # "none"
           complete == runlog[id] = "complete"
           hasrst == rstleft[id] # None
           dh == IF hasrst THEN rstleft[id] ELSE 0
           outexist == outfiles[id] # {}
           \* misc_tools.py lines 890-897 and submit_jobs.py lines 411-421
           moves == restart /\ RestartMoves(haslog, complete, hasrst, dh)
           backup == OutBackup(restart, outexist, exist)
       IN
       \* search_replace.sh succeeds or not
       \E patch_ok \in (IF moves THEN BOOLEAN ELSE {TRUE}) :
       /\ RepetitionWith(initd, haslog, complete, hasrst, dh, patch_ok, outexist)
       /\ outfiles' = IF moves THEN [outfiles EXCEPT ![id] = {}]
                       ELSE IF backup THEN [outfiles EXCEPT ![id] = {}]
                       ELSE outfiles
       /\ outbak' = IF backup
                     THEN [outbak EXCEPT ![id] = [st \in Streams |->
                             IF st \in outfiles[id]
                             THEN outbak[id][st] \cup {BkInd(outbak[id][st])}
                             ELSE outbak[id][st]]]
                     ELSE outbak
       /\ nbak' = IF backup
                   THEN [nbak EXCEPT ![id].out = [st \in Streams |->
                             IF st \in outfiles[id] THEN nbak[id].out[st] + 1
                             ELSE nbak[id].out[st]]]
                   ELSE nbak
       /\ rstseg' = IF moves
                     THEN [rstseg EXCEPT ![id] = [st \in Streams |->
                             IF st \in outfiles[id]
                             THEN rstseg[id][st] \cup {RstInd(rstseg[id][st])}
                             ELSE rstseg[id][st]]]
                     ELSE rstseg
       \* misc_tools.py lines 898-902: search_replace.sh sets restart .true
       /\ patched' = IF moves THEN [patched EXCEPT ![id] = patch_ok] ELSE patched
       /\ nmoved' = IF moves THEN nmoved + Cardinality(outfiles[id])
                     ELSE IF backup THEN nmoved + Cardinality(outfiles[id])
                     ELSE nmoved
    /\ UNCHANGED <<rundir, dirbak, runlog, rstleft, ninvoc, ninit, bak0, pre,
                   estim>>

\* one pass of the "while iterate" loop; the jobs of the pool run and end
SubmitFS ==
    /\ SubmitPool
    /\ IF Executes(check_args)
       THEN \E o \in [Range(IDs) -> Outcomes] :
              /\ outfiles' = [id \in RunsFS |->
                     IF id \in Range(IDs) THEN Streams ELSE outfiles[id]]
              /\ runlog' = [id \in RunsFS |->
                     IF id \in Range(IDs)
                     THEN (IF o[id] = "complete" THEN "complete" ELSE "partial")
                     ELSE runlog[id]]
              /\ rstleft' = [id \in RunsFS |->
                     IF id \in Range(IDs)
                     THEN (IF o[id] = "stopped" THEN 1
                           ELSE IF o[id] = "atend" THEN 0 ELSE None)
                     ELSE rstleft[id]]
       ELSE UNCHANGED <<outfiles, runlog, rstleft>>
    /\ UNCHANGED <<rundir, dirbak, outbak, rstseg, patched, ninvoc, ninit,
                   nmoved, nbak, bak0, pre, estim>>

NextFS == Invoke \/ ConfigureFS \/ InitializeFS \/ RepetitionFS \/ SubmitFS

SpecFS == FSInit /\ [][NextFS]_vars

\* submit_jobs with job scheduler or without, in run mode, for NConf
\* configurations of initialized runs without output: the sources of the
\* estimates are followed
EstInit ==
    /\ job_scheduler \in Schedulers
    /\ \E pool_arg, force_pool \in BOOLEAN :
          pool_jobs = (pool_arg \/ (job_scheduler = "slurm" /\ force_pool))
    /\ pool_size = 2
    \* lines 74-77: test runs need a job scheduler and no pooling
    /\ test_run \in (IF use_job_scheduler /\ ~pool_jobs THEN BOOLEAN ELSE {FALSE})
    /\ init = FALSE /\ restart = FALSE /\ exist = "s" /\ check_args = FALSE
    /\ send_rt_signal = 1
    /\ request_vmem = use_job_scheduler
    /\ ncombs = NConf
    /\ phase = "conf"
    /\ i = 0 /\ rep = 0
    /\ nx = 0 /\ ny = 0 /\ nslotsi = 0 /\ vmemi = None
    /\ rt_per_hour = 0 /\ run_hours = 0 /\ n_rep = 0
    /\ IDr = <<>> /\ rtri = None /\ last_id = FALSE /\ resched_i = FALSE
    /\ IDs = <<>> /\ rtr = <<>> /\ vmem = <<>> /\ nslots = <<>> /\ nxny = <<>>
    /\ accepted = <<>> /\ skipped = {} /\ submitted = <<>> /\ nexec = 0
    /\ niter = 0 /\ err = "" /\ cutoff = {} /\ configs = <<>>
    /\ estimates = <<>>
    /\ rundir = <<>> /\ dirbak = <<>> /\ outfiles = <<>> /\ outbak = <<>>
    /\ rstseg = <<>> /\ runlog = <<>> /\ rstleft = <<>> /\ patched = <<>>
    /\ ninvoc = 1 /\ ninit = 0 /\ nmoved = 0 /\ nbak = <<>> /\ bak0 = {}
    /\ pre = <<>>
    \* the configuration file: each source of an estimate set or not
    /\ conf_rt \in {None, 1}
    /\ conf_runtime_per_step_dict \in {<<>>, <<5>>}
    /\ conf_vmem \in {None, 1}
    /\ conf_vmem_per_grid_point \in {None, 1}
    /\ conf_vmem_min \in (IF conf_vmem = None /\ conf_vmem_per_grid_point # None
                          THEN {None, 3} ELSE {None})
    /\ resources = <<>>
    /\ namelist = <<>> /\ identical_runs = <<>>
    /\ NoTiling

\* lines 160-297 with the call of set_vmem_rt (lines 278-284), for the grid
\* spacing dx of the configuration, the tiling px x 1 and what the identical
\* runs yield (ident_rt, ident_vmem)
ConfigureEst ==
    /\ \E dx \in 1..MaxDx, px \in 1..MaxNProc,
          ident_rt \in {None, 3}, ident_vmem \in {None, 3} :
        LET ns == SlotCount(TileNx(px, 1), TileNy(px, 1))
            called == use_job_scheduler /\ ~init
            res == SetVmemRt(test_run, conf_rt, conf_runtime_per_step_dict, dx,
                             ident_rt, conf_vmem, conf_vmem_per_grid_point,
                             conf_vmem_min, ident_vmem, MaxHours, ns)
            found == ~called \/ ~res.skip
        IN
        /\ ConfigureWith(found, px, 1,
                         \* line 543: a test run has one repetition
                         IF test_run THEN 1 ELSE MaxRep,
                         MaxHours,
                         \* line 441: rt_per_timestep/dt_f*3600
                         IF called /\ found
                         THEN res.rt_per_timestep * (3600 \div Dt) ELSE 1,
                         \* line 284: vmemi = args["vmem"], for ns slots
                         IF called /\ found THEN res.vmem \div ns ELSE 1)
        /\ resources' = Append(resources,
               [dx |-> dx, ident_rt |-> ident_rt, ident_vmem |-> ident_vmem,
                called |-> called,
                skip |-> called /\ res.skip,
                rt_per_timestep |-> IF called THEN res.rt_per_timestep ELSE None,
                vmem |-> IF called THEN res.vmem ELSE None])
    /\ UNCHANGED <<files, test_run, conf_rt, conf_runtime_per_step_dict,
                   conf_vmem, conf_vmem_per_grid_point, conf_vmem_min, namelist,
                   identical_runs, tiling, gridvars>>

\* lines 298-457 for an initialized run without output files
RepetitionEst ==
    /\ RepetitionWith(TRUE, TRUE, FALSE, TRUE, 1, TRUE, FALSE)
    /\ UNCHANGED <<files, estim>>

NextEst == ConfigureEst \/ RepetitionEst \/ Submit

SpecEst == EstInit /\ [][NextEst]_vars

\* get_identical_runs is called for reference directories of a search path
\* whose NDirs run directories hold any namelists; submit_jobs is not running
NmlInit ==
    /\ job_scheduler = "none" /\ pool_jobs = FALSE /\ pool_size = 2
    /\ init = FALSE /\ restart = FALSE /\ exist = "s" /\ check_args = FALSE
    /\ send_rt_signal = 1 /\ request_vmem = FALSE /\ ncombs = 1
    /\ phase = "done"
    /\ i = 0 /\ rep = 0
    /\ nx = 0 /\ ny = 0 /\ nslotsi = 0 /\ vmemi = None
    /\ rt_per_hour = 0 /\ run_hours = 0 /\ n_rep = 0
    /\ IDr = <<>> /\ rtri = None /\ last_id = FALSE /\ resched_i = FALSE
    /\ IDs = <<>> /\ rtr = <<>> /\ vmem = <<>> /\ nslots = <<>> /\ nxny = <<>>
    /\ accepted = <<>> /\ skipped = {} /\ submitted = <<>> /\ nexec = 0
    /\ niter = 0 /\ err = "" /\ cutoff = {} /\ configs = <<>>
    /\ estimates = <<>>
    /\ rundir = <<>> /\ dirbak = <<>> /\ outfiles = <<>> /\ outbak = <<>>
    /\ rstseg = <<>> /\ runlog = <<>> /\ rstleft = <<>> /\ patched = <<>>
    /\ ninvoc = 1 /\ ninit = 0 /\ nmoved = 0 /\ nbak = <<>> /\ bak0 = {}
    /\ pre = <<>>
    /\ test_run = FALSE /\ conf_rt = None
    /\ conf_runtime_per_step_dict = <<>>
    /\ conf_vmem = None /\ conf_vmem_per_grid_point = None
    /\ conf_vmem_min = None
    /\ resources = <<>>
    /\ namelist \in [Dirs -> Namelists]
    /\ identical_runs = <<>>
    /\ NoTiling

\* lines 423-471: one call, for a reference directory not yet looked up
IdenticalRunsOf ==
    /\ \E run_dir \in Dirs :
          /\ run_dir \notin DOMAIN identical_runs
          /\ identical_runs' =
                [d \in (DOMAIN identical_runs) \cup {run_dir} |->
                    IF d = run_dir THEN GetIdenticalRuns(run_dir)
                    ELSE identical_runs[d]]
    /\ UNCHANGED <<settings, phase, i, rep, confvars, IDr, rtri, last_id,
                   resched_i, pool, history, files, test_run, conf_rt,
                   conf_runtime_per_step_dict, conf_vmem,
                   conf_vmem_per_grid_point, conf_vmem_min, resources,
                   namelist, tiling, gridvars>>

NextNml == IdenticalRunsOf

SpecNml == NmlInit /\ [][NextNml]_vars

\* lines 220-243 and 301 for one configuration of any domain size: the slots
\* of a run
TileInit ==
    /\ job_scheduler = "none" /\ pool_jobs = FALSE /\ pool_size = 2
    /\ init = FALSE /\ restart = FALSE /\ exist = "s" /\ check_args = FALSE
    /\ send_rt_signal = 1 /\ request_vmem = FALSE /\ ncombs = 1
    /\ phase = "conf"
    /\ i = 0 /\ rep = 0
    /\ nx = 0 /\ ny = 0 /\ nslotsi = 0 /\ vmemi = None
    /\ rt_per_hour = 0 /\ run_hours = 0 /\ n_rep = 0
    /\ IDr = <<>> /\ rtri = None /\ last_id = FALSE /\ resched_i = FALSE
    /\ IDs = <<>> /\ rtr = <<>> /\ vmem = <<>> /\ nslots = <<>> /\ nxny = <<>>
    /\ accepted = <<>> /\ skipped = {} /\ submitted = <<>> /\ nexec = 0
    /\ niter = 0 /\ err = "" /\ cutoff = {} /\ configs = <<>>
    /\ estimates = <<>>
    /\ rundir = <<>> /\ dirbak = <<>> /\ outfiles = <<>> /\ outbak = <<>>
    /\ rstseg = <<>> /\ runlog = <<>> /\ rstleft = <<>> /\ patched = <<>>
    /\ ninvoc = 1 /\ ninit = 0 /\ nmoved = 0 /\ nbak = <<>> /\ bak0 = {}
    /\ pre = <<>>
    /\ test_run = FALSE /\ conf_rt = None
    /\ conf_runtime_per_step_dict = <<>>
    /\ conf_vmem = None /\ conf_vmem_per_grid_point = None
    /\ conf_vmem_min = None
    /\ resources = <<>>
    /\ namelist = <<>> /\ identical_runs = <<>>
    /\ n_we \in (1..MaxN) \cup {25, 100, 101}
    /\ n_sn \in (1..MaxN) \cup {25, 100, 101}
    /\ min_n_per_proc \in (1..MaxPerProc) \cup {25}
    /\ even_split \in BOOLEAN
    /\ max_nslotsx \in {None} \cup (1..MaxCap)
    /\ max_nslotsy \in {None} \cup (1..MaxCap)
    /\ nprocs = <<>>
    /\ NoGrid

\* lines 220-243, and lines 299-301 for the first repetition
FindSlots ==
    /\ phase = "conf"
    /\ LET px == FindNproc(n_we, min_n_per_proc, even_split)
           py == FindNproc(n_sn, min_n_per_proc, even_split)
           cx == Capped(max_nslotsx, px)
           cy == Capped(max_nslotsy, py)
       IN /\ nprocs' = <<px, py>>
          /\ nx' = TileNx(cx, cy)
          /\ ny' = TileNy(cx, cy)
          /\ nslotsi' = SlotCount(TileNx(cx, cy), TileNy(cx, cy))
          /\ nslots' = Append(nslots, SlotCount(TileNx(cx, cy), TileNy(cx, cy)))
          /\ nxny' = Append(nxny, <<TileNx(cx, cy), TileNy(cx, cy)>>)
    /\ phase' = "done"
    /\ UNCHANGED <<settings, i, rep, vmemi, rt_per_hour, run_hours, n_rep, IDr,
                   rtri, last_id, resched_i, IDs, rtr, vmem, history, files,
                   test_run, conf_rt, conf_runtime_per_step_dict, conf_vmem,
                   conf_vmem_per_grid_point, conf_vmem_min, resources, namelist,
                   identical_runs, n_we, n_sn, min_n_per_proc, even_split,
                   max_nslotsx, max_nslotsy, gridvars>>

NextTile == FindSlots

SpecTile == TileInit /\ [][NextTile]_vars

\* the configurations of an invocation: grid_combinations for any param_grid
\* of up to MaxAxes parameters with distinct names, output_id_from_config
\* for every combination, and the loops of lines 160 and 298 over them
GridInit ==
    /\ job_scheduler = "none" /\ pool_jobs = FALSE /\ pool_size = 2
    /\ init = FALSE /\ restart = FALSE /\ exist = "s" /\ check_args = FALSE
    /\ send_rt_signal = 1 /\ request_vmem = FALSE /\ ncombs = 0
    /\ phase = "grid"
    /\ i = 0 /\ rep = 0
    /\ nx = 0 /\ ny = 0 /\ nslotsi = 0 /\ vmemi = None
    /\ rt_per_hour = 0 /\ run_hours = 0 /\ n_rep = 0
    /\ IDr = <<>> /\ rtri = None /\ last_id = FALSE /\ resched_i = FALSE
    /\ IDs = <<>> /\ rtr = <<>> /\ vmem = <<>> /\ nslots = <<>> /\ nxny = <<>>
    /\ accepted = <<>> /\ skipped = {} /\ submitted = <<>> /\ nexec = 0
    /\ niter = 0 /\ err = "" /\ cutoff = {} /\ configs = <<>>
    /\ estimates = <<>>
    /\ rundir = <<>> /\ dirbak = <<>> /\ outfiles = <<>> /\ outbak = <<>>
    /\ rstseg = <<>> /\ runlog = <<>> /\ rstleft = <<>> /\ patched = <<>>
    /\ ninvoc = 1 /\ ninit = 0 /\ nmoved = 0 /\ nbak = <<>> /\ bak0 = {}
    /\ pre = <<>>
    /\ test_run = FALSE /\ conf_rt = None
    /\ conf_runtime_per_step_dict = <<>>
    /\ conf_vmem = None /\ conf_vmem_per_grid_point = None
    /\ conf_vmem_min = None
    /\ resources = <<>>
    /\ namelist = <<>> /\ identical_runs = <<>>
    /\ n_we = 0 /\ n_sn = 0 /\ min_n_per_proc = 0 /\ even_split = FALSE
    /\ max_nslotsx = None /\ max_nslotsy = None /\ nprocs = <<>>
    /\ param_grid \in Grids
    \* no base parameters, or one the first parameter of the grid sets too,
    \* one a composite there sets too and one the grid does not set
    /\ add_params \in {<<>>,
                       << << <<1, 0>>, BaseValue >>, << <<1, 1>>, BaseValue >>,
                          << <<0, 0>>, BaseValue >> >>}
    \* no param_names, or labels for the first parameters of the grid: a
    \* label for each position, or one label for all positions
    /\ param_names \in {[none |-> TRUE, of |-> {}, labels |-> <<>>]}
                       \cup {[none |-> FALSE, of |-> 1..n, labels |-> l] :
                               n \in 1..MaxAxes,
                               l \in {[p \in 1..MaxLen |-> p - 1],
                                      [p \in 1..MaxLen |-> 0]}}
    /\ expansion = <<>> /\ fnames = <<>> /\ nreps = <<>> /\ runs = <<>>

\* lines 162-200: grid_combinations
Expand ==
    /\ phase = "grid"
    /\ expansion' = GridCombinations(param_grid, add_params)
    /\ IF expansion'.raised
       THEN phase' = "error" /\ err' = "composite" /\ ncombs' = ncombs
       ELSE phase' = "ids" /\ err' = err /\ ncombs' = Len(expansion'.combs)
    /\ UNCHANGED <<job_scheduler, init, pool_jobs, pool_size, restart, exist,
                   check_args, send_rt_signal, request_vmem, i, rep, confvars,
                   IDr, rtri, last_id, resched_i, pool, accepted, skipped,
                   submitted, nexec, niter, cutoff, configs, estimates, files,
                   test_run, conf_rt, conf_runtime_per_step_dict, conf_vmem,
                   conf_vmem_per_grid_point, conf_vmem_min, resources, namelist,
                   identical_runs, tiling, param_grid, add_params, param_names,
                   fnames, nreps, runs>>

\* lines 202-245: output_id_from_config for every combination, in order
OutputIds ==
    /\ phase = "ids"
    /\ IF ncombs > 0 /\ IdRaises(param_grid, param_names)
       THEN phase' = "error" /\ err' = "param_names" /\ fnames' = fnames
       ELSE /\ fnames' = [n \in DOMAIN expansion.combs |->
                            OutputIdFromConfig(expansion.combs[n], param_grid,
                                               param_names)]
            /\ phase' = IF ncombs > 0 THEN "conf" ELSE "done"
            /\ err' = err
    /\ UNCHANGED <<settings, i, rep, confvars, IDr, rtri, last_id, resched_i,
                   pool, accepted, skipped, submitted, nexec, niter, cutoff,
                   configs, estimates, files, test_run, conf_rt,
                   conf_runtime_per_step_dict, conf_vmem,
                   conf_vmem_per_grid_point, conf_vmem_min, resources, namelist,
                   identical_runs, tiling, param_grid, add_params, param_names,
                   expansion, nreps, runs>>

\* lines 160-297: the configuration loop reads n_rep of configuration i
ConfigureGrid ==
    /\ phase = "conf"
    /\ \E nrep \in 1..MaxRep :
          /\ n_rep' = nrep
          /\ nreps' = Append(nreps, nrep)
    /\ phase' = "rep" /\ rep' = 0
    /\ UNCHANGED <<settings, i, nx, ny, nslotsi, vmemi, rt_per_hour, run_hours,
                   IDr, rtri, last_id, resched_i, pool, history, files,
                   test_run, conf_rt, conf_runtime_per_step_dict, conf_vmem,
                   conf_vmem_per_grid_point, conf_vmem_min, resources, namelist,
                   identical_runs, tiling, param_grid, add_params, param_names,
                   expansion, fnames, runs>>

\* lines 298-304: the repetition loop names the run and its directory
RepetitionGrid ==
    /\ phase = "rep"
    /\ IDr' = RunId(fnames[i + 1], rep)
    /\ runs' = Append(runs, [i |-> i, rep |-> rep,
                             IDr |-> RunId(fnames[i + 1], rep),
                             run_dir_r |-> RunDir(fnames[i + 1], rep)])
    /\ phase' = AfterRep(rep, n_rep, i, ncombs).phase
    /\ i' = AfterRep(rep, n_rep, i, ncombs).i
    /\ rep' = AfterRep(rep, n_rep, i, ncombs).rep
    /\ UNCHANGED <<settings, confvars, rtri, last_id, resched_i, pool, history,
                   files, test_run, conf_rt, conf_runtime_per_step_dict,
                   conf_vmem, conf_vmem_per_grid_point, conf_vmem_min, resources,
                   namelist, identical_runs, tiling, param_grid, add_params,
                   param_names, expansion, fnames, nreps>>

NextGrid == Expand \/ OutputIds \/ ConfigureGrid \/ RepetitionGrid

SpecGrid == GridInit /\ [][NextGrid]_vars

\* ------------------------------------------------------------ properties
\* the run identifiers of all submissions, in submission order
SubmittedIDs == Concat([k \in 1..Len(submitted) |-> submitted[k].IDs])

IsPrefix(s, t) == Len(s) <= Len(t) /\ s = SubSeq(t, 1, Len(s))

\* the invocation is between two passes of the repetition loop, or has returned
Between == phase \in {"conf", "rep", "done"}

\* slot-sum of the runs in the pool that no submission contains yet
PendingSum ==
    Sum([k \in 1..Len(IDs) |->
            IF IDs[k] \in Range(SubmittedIDs) THEN 0 ELSE nslots[k]])

\* the last repetition of the batch (of the last configuration, once it got
\* past the resource estimate)
LastRun == <<ncombs - 1, n_rep - 1>>

\* the slot count, tiling and memory of every run of pool p are those computed
\* for the run's configuration
PoolMatches(p) ==
    /\ Len(p.nslots) = Len(p.IDs)
    /\ Len(p.nxny) = Len(p.IDs)
    /\ Len(p.vmem) = Len(p.IDs)
    /\ \A k \in 1..Len(p.IDs) :
          LET c == configs[p.IDs[k][1] + 1] IN
          /\ p.nslots[k] = c.nslots
          /\ p.nxny[k] = <<c.nx, c.ny>>
          /\ p.vmem[k] = c.vmem

\* C1: no run identifier appears in more than one submission of an invocation
\* (nor twice in one), with pooling on or off, also after an overflow
\* carry-over and after the extra pass for a rescheduled last run.
C1_AtMostOnce == NoDup(SubmittedIDs)

\* C1 witness: the invocation returned after two carry-overs, the second one
\* at the last repetition, which was submitted in the extra pass.
C1_Witness ==
    /\ phase = "done" /\ pool_jobs /\ niter = 2
    /\ Cardinality(cutoff) >= 2 /\ Len(submitted) >= 3

\* C2: when the invocation returns without a fatal error, every accepted
\* repetition is contained in some submission, whichever later repetitions or
\* configurations were skipped.
C2_AllAcceptedSubmitted ==
    phase = "done" => Range(accepted) \subseteq Range(SubmittedIDs)

\* C3: the submitted pools list the runs in the order they were accepted, and
\* when the invocation has returned their concatenation in submission order is
\* the sequence of accepted runs.
C3_AcceptedOrder ==
    /\ IsPrefix(SubmittedIDs, accepted)
    /\ phase = "done" => SubmittedIDs = accepted

\* C4: with pooling, every submitted pool has a slot-sum of at most pool_size.
C4_CapacityBound ==
    pool_jobs => \A k \in 1..Len(submitted) :
                    Sum(submitted[k].nslots) <= pool_size

\* C5: with pooling, a pool of exactly one run whose slot count exceeds
\* pool_size is never submitted (the invocation aborts instead), under every
\* scheduler setting.
C5_SingleRunAborts ==
    pool_jobs => \A k \in 1..Len(submitted) :
                    ~(Len(submitted[k].IDs) = 1 /\ submitted[k].nslots[1] > pool_size)

C7_PendingBelowPoolSize ==
    (pool_jobs /\ Between) => PendingSum < pool_size

\* C7 (amended): with pooling, between repetitions the runs not yet submitted
\* have a slot-sum strictly below pool_size, unless the pool is exactly one
\* run that an overflow cut carried over: that run waits for the next flush
\* whatever its slot count.
C7_PendingBelowPoolSizeOrCarried ==
    (pool_jobs /\ Between) =>
        \/ PendingSum < pool_size
        \/ Len(IDs) = 1 /\ IDs[1] \in cutoff

\* C7 witness: a carried-over run that fills the pool is pending.
C7_Witness ==
    /\ pool_jobs /\ phase = "rep"
    /\ Len(IDs) = 1 /\ IDs[1] \in cutoff /\ PendingSum >= pool_size

\* C8: without pooling every submission contains exactly one run and is made
\* in the pass of the repetition loop that accepted the run: the pool is empty
\* between repetitions.
C8_NoPooling ==
    ~pool_jobs =>
        /\ \A k \in 1..Len(submitted) : Len(submitted[k].IDs) = 1
        /\ Between => (IDs = <<>> /\ nslots = <<>> /\ SubmittedIDs = accepted)
        /\ phase = "flush" =>
              (IDs = <<IDr>> /\ accepted = SubmittedIDs \o <<IDr>>)

\* C8 witness: two runs were submitted one by one around a skipped one.
C8_Witness ==
    /\ ~pool_jobs /\ phase = "done"
    /\ Len(submitted) = 2 /\ <<0, 1>> \in skipped
    /\ SubmittedIDs = << <<0, 0>>, <<1, 0>> >>

\* C9 (as claimed): a skipped repetition is in no submission, every submitted
\* pool counts the slots, tiling and memory of exactly its own runs, and the
\* number of scheduler invocations equals the number of flushed pools.
C9_SkippedNotSubmitted ==
    /\ skipped \cap Range(SubmittedIDs) = {}
    /\ \A k \in 1..Len(submitted) : PoolMatches(submitted[k])
    /\ nexec = Len(submitted)

\* C9 (amended): as claimed, but the number of scheduler invocations equals
\* the number of flushed pools only without check_args; with check_args the
\* pools are flushed and no command is executed.
C9_SkippedNotSubmittedDry ==
    /\ skipped \cap Range(SubmittedIDs) = {}
    /\ \A k \in 1..Len(submitted) : PoolMatches(submitted[k])
    /\ nexec = IF check_args THEN 0 ELSE Len(submitted)

\* C9 witness: a pool of the runs before and after a skipped repetition was
\* submitted by a scheduler command.
C9_Witness ==
    /\ <<0, 1>> \in skipped /\ nexec >= 1
    /\ \E k \in 1..Len(submitted) : submitted[k].IDs = << <<0, 0>>, <<1, 0>> >>

\* C10: every pool submitted through a job scheduler has a wall-clock limit
\* strictly above the time at which the runtime-limit signal is sent.
C10_SignalBelowLimit ==
    use_job_scheduler => \A k \in 1..Len(submitted) :
                            send_rt_signal < Max(submitted[k].rtr)

\* the estimated wall-clock time (rtri, in ticks) of an accepted run
EstimateOf(id) ==
    estimates[CHOOSE k \in 1..Len(accepted) : accepted[k] = id]

\* a formatted wall-clock limit, in ticks
LimitTicks(hms) == (3600 * hms[1] + 60 * hms[2] + hms[3]) * TicksPerSecond

\* C11: the wall-clock limit requested for a pool submitted through a job
\* scheduler is the maximum of the estimated wall-clock times of exactly the
\* runs in that pool, so that no member's estimate is above the limit.
C11_PoolWallClock ==
    use_job_scheduler => \A k \in 1..Len(submitted) :
        LET p == submitted[k] IN
        /\ Len(p.rtr) = Len(p.IDs)
        /\ \A m \in 1..Len(p.IDs) :
              /\ p.rtr[m] = EstimateOf(p.IDs[m])
              /\ EstimateOf(p.IDs[m]) <= LimitTicks(p.rtp)
        /\ \E m \in 1..Len(p.IDs) : LimitTicks(p.rtp) = EstimateOf(p.IDs[m])

\* the sum of the memory estimates of the runs of pool p (as lines 278-284
\* computed them for the runs' configurations)
MemberVmem(p) == Sum([m \in 1..Len(p.IDs) |-> configs[p.IDs[m][1] + 1].vmem])

\* the sum of the slot counts of the runs of pool p
MemberSlots(p) == Sum([m \in 1..Len(p.IDs) |-> configs[p.IDs[m][1] + 1].nslots])

\* C12: the memory per slot requested for a submitted pool is the sum of the
\* memory estimates of exactly the pool's runs divided by the sum of their
\* slot counts, rounded down to an integer.
C12_PoolVmem ==
    (use_job_scheduler /\ request_vmem) => \A k \in 1..Len(submitted) :
        LET p == submitted[k] IN
        /\ p.vmemp * MemberSlots(p) <= MemberVmem(p)
        /\ MemberVmem(p) < (p.vmemp + 1) * MemberSlots(p)

\* C12 witness: a pool of two runs was submitted whose memory per slot is not
\* a whole number before rounding.
C12_Witness ==
    \E k \in 1..Len(submitted) :
        /\ submitted[k].vmemp # None
        /\ Len(submitted[k].IDs) = 2
        /\ submitted[k].vmemp * MemberSlots(submitted[k]) < MemberVmem(submitted[k])

\* ------------------------------------------- properties of the directories
\* the smallest index that is not in use
MinFree(used) ==
    CHOOSE n \in 0..Cardinality(used) :
        n \notin used /\ \A m \in 0..(n - 1) : m \in used

\* the indices in use after k more backups, each under the smallest free index
RECURSIVE Fill(_, _)
Fill(used, k) == IF k = 0 THEN used ELSE Fill(used \cup {MinFree(used)}, k - 1)

\* the backup indices of the files of stream st at Init
OutBak0(st) == IF st = 1 THEN bak0 ELSE {}

\* C13: an invocation whose -e value is not one of s, o, b ends with a fatal
\* error in init, run and restart mode, whether or not the run directory or
\* output files exist: it never returns normally, and it executes no init
\* command and no run.
C13_UndefinedExistAborts ==
    exist \notin {"s", "o", "b"} =>
        /\ phase # "done"
        /\ ninit = 0 /\ nexec = 0

\* C14: under -e b every existing run directory (init mode) and every existing
\* output file (run mode) is renamed to the backup with the smallest index not
\* in use for it: no backup is overwritten, and k backups of an artifact that
\* had none leave the backups 0 .. k-1.
C14_BackupNumbering ==
    \A id \in RunsFS :
        /\ dirbak[id] = Fill(bak0, nbak[id].dir)
        /\ Cardinality(dirbak[id]) = Cardinality(bak0) + nbak[id].dir
        /\ bak0 = {} => dirbak[id] = 0..(nbak[id].dir - 1)
        /\ \A st \in Streams :
              /\ outbak[id][st] = Fill(OutBak0(st), nbak[id].out[st])
              /\ Cardinality(outbak[id][st]) =
                    Cardinality(OutBak0(st)) + nbak[id].out[st]
              /\ OutBak0(st) = {} =>
                    outbak[id][st] = 0..(nbak[id].out[st] - 1)

\* C14 witness: the output files of a run were backed up twice, the file of
\* the first stream around an index that was in use.
C14_Witness ==
    /\ bak0 = {1}
    /\ \E id \in RunsFS : nbak[id].out[1] = 2 /\ nbak[id].out[2] = 2

\* C15 (as claimed): in init mode under -e s a repetition is skipped, with no
\* init command and the directories untouched, if and only if its run
\* directory exists and holds wrfinput_d01; otherwise the initialization is
\* carried out.
C15_InitSkipPolicy ==
    [][(init /\ phase = "rep" /\ exist = "s") =>
          IF rundir[<<i, rep>>] = "init"
          THEN /\ <<i, rep>> \in skipped'
               /\ ninit' = ninit /\ disk' = disk
          ELSE /\ <<i, rep>> \notin skipped'
               /\ ninit' = ninit + 1]_vars

\* C15 (amended): as claimed, but the init command of a repetition that is not
\* skipped is executed only without check_args.
C15_InitSkipPolicyDry ==
    [][(init /\ phase = "rep" /\ exist = "s") =>
          IF rundir[<<i, rep>>] = "init"
          THEN /\ <<i, rep>> \in skipped'
               /\ ninit' = ninit /\ disk' = disk
          ELSE /\ <<i, rep>> \notin skipped'
               /\ ninit' = IF check_args THEN ninit ELSE ninit + 1]_vars

\* C15 witness: an invocation in init mode under -e s skipped the initialized
\* run and initialized the other one, whose directory had no wrfinput_d01.
C15_Witness ==
    /\ init /\ exist = "s" /\ phase = "done"
    /\ skipped = {<<0, 0>>} /\ ninit = 1 /\ ~pre.allinit /\ ninvoc > 1

\* C16: a run-mode invocation under -e s that finds the output files of every
\* repetition skips every repetition, makes no submission and renames
\* nothing; an init-mode invocation under -e s that finds every run
\* initialized executes no init command.
C16_IdempotentReentry ==
    /\ (~init /\ ~restart /\ exist = "s" /\ pre.allout) =>
          /\ phase # "error"
          /\ accepted = <<>> /\ submitted = <<>> /\ nexec = 0 /\ nmoved = 0
          /\ phase = "done" => skipped = RunsFS
    /\ (init /\ exist = "s" /\ pre.allinit) =>
          /\ phase # "error"
          /\ ninit = 0 /\ nmoved = 0
          /\ phase = "done" => skipped = RunsFS

\* C16 witness: the invocation after the one that produced all output files
\* has returned.
C16_Witness ==
    /\ ~init /\ ~restart /\ exist = "s" /\ pre.allout /\ pre.allinit
    /\ phase = "done" /\ skipped = RunsFS

\* nothing to restart for run id: the success line is in run.log, or there is
\* no wrfrst file, or the newest one is not before end_time
NothingToRestart(id) ==
    \/ runlog[id] = "complete"
    \/ rstleft[id] = None
    \/ rstleft[id] <= 0

\* C17: in restart mode a repetition with nothing to restart is skipped, and
\* no output file is moved to rst/ and the namelist is not patched.
C17_RestartSkipNoOp ==
    [][(restart /\ phase = "rep" /\ NothingToRestart(<<i, rep>>)) =>
          /\ phase' # "error"
          /\ <<i, rep>> \in skipped'
          /\ outfiles' = outfiles /\ rstseg' = rstseg /\ patched' = patched]_vars

\* ---- set_vmem_rt and the configuration loop (SpecEst)
\* no source yields a runtime estimate for configuration number k
NoRuntimeSource(res) ==
    /\ conf_rt = None
    /\ DictEntry(conf_runtime_per_step_dict, res.dx) = None
    /\ res.ident_rt = None

\* no source yields a vmem estimate
NoVmemSource(res) ==
    /\ conf_vmem = None /\ conf_vmem_per_grid_point = None
    /\ res.ident_vmem = None

MissingEstimate(res) == NoRuntimeSource(res) \/ NoVmemSource(res)

\* a repetition of configuration number k was appended to a pool or submitted
ConfigAccepted(k) ==
    \E id \in Range(accepted) \cup Range(SubmittedIDs) : id[1] = k - 1

\* nothing of configuration k is submitted and no value stands for the
\* missing estimate
NothingScheduled(k) ==
    /\ ~ConfigAccepted(k)
    /\ NoRuntimeSource(resources[k]) => resources[k].rt_per_timestep = None
    /\ resources[k].vmem = None /\ configs[k].vmem = None

\* the step that looks up the estimates of a configuration leaves the
\* configuration without error and goes on with the next one, if any
SkipStepContinues ==
    /\ err' = err /\ phase' # "error"
    /\ accepted' = accepted /\ submitted' = submitted /\ pool' = pool
    /\ IF i + 1 < ncombs THEN phase' = "conf" /\ i' = i + 1
       ELSE phase' = "done"

\* C18 as stated: whenever no explicit value, no lookup table entry and no
\* identical prior run yields a runtime (or memory) estimate for a
\* configuration, no repetition of it is submitted, no value is guessed, no
\* error is raised and the loop goes on with the next configuration.
C18_MissingEstimateSkips ==
    [][/\ (\A k \in DOMAIN resources :
            MissingEstimate(resources[k]) => NothingScheduled(k))'
       /\ (Len(resources') = Len(resources) + 1
           /\ MissingEstimate(resources'[Len(resources')]))
          => SkipStepContinues]_vars

\* set_vmem_rt is consulted for the estimates and does not use the values
\* of a test run
EstimatesSought == use_job_scheduler /\ ~init /\ ~test_run

\* C18, amended: with a job scheduler, in run or restart mode and outside
\* test runs, a configuration for which no source yields a runtime (or
\* memory) estimate is skipped: no repetition of it is submitted, no value is
\* guessed, no error is raised and the loop goes on with the next
\* configuration.
C18_MissingEstimateSkipsScheduled ==
    [][/\ (\A k \in DOMAIN resources :
            (EstimatesSought /\ MissingEstimate(resources[k]))
            => (resources[k].skip /\ NothingScheduled(k)))'
       /\ (EstimatesSought
           /\ Len(resources') = Len(resources) + 1
           /\ MissingEstimate(resources'[Len(resources')]))
          => SkipStepContinues]_vars

\* the first configuration was skipped for its missing estimate and a
\* repetition of the second one was submitted
C18_Witness ==
    /\ EstimatesSought
    /\ Len(resources) = 2
    /\ MissingEstimate(resources[1]) /\ resources[1].skip
    /\ ~MissingEstimate(resources[2])
    /\ <<1, 0>> \in Range(SubmittedIDs)

\* rt_per_timestep from the first of conf.rt, the lookup table and the
\* identical runs that yields a value
FirstSource(res) ==
    IF conf_rt # None THEN MinutesToTicks(conf_rt)
    ELSE IF DictEntry(conf_runtime_per_step_dict, res.dx) # None
         THEN DictEntry(conf_runtime_per_step_dict, res.dx) * RtBuffer
    ELSE IF res.ident_rt # None THEN res.ident_rt * RtBuffer
    ELSE None

\* C19 as stated: whenever set_vmem_rt is called, the runtime per step is
\* taken from the first of explicit value (conf.rt), lookup table entry for
\* the grid spacing and identical prior runs that yields a value, and is
\* unavailable only if none of the three does.
C19_EstimatorPrecedence ==
    \A k \in DOMAIN resources :
        resources[k].called => resources[k].rt_per_timestep = FirstSource(resources[k])

\* C19, amended: outside test runs (where conf.rt_test is used whatever the
\* other sources yield), the runtime per step is taken from the first of
\* conf.rt, lookup table entry for the grid spacing and identical prior runs
\* that yields a value, and is unavailable only if none of the three does.
C19_EstimatorPrecedenceNoTest ==
    \A k \in DOMAIN resources :
        (resources[k].called /\ ~test_run)
        => resources[k].rt_per_timestep = FirstSource(resources[k])

\* without conf.rt, the lookup table entry was taken although identical runs
\* had a timing too
C19_Witness ==
    \E k \in DOMAIN resources :
        /\ resources[k].called /\ ~test_run
        /\ conf_rt = None
        /\ DictEntry(conf_runtime_per_step_dict, resources[k].dx) # None
        /\ resources[k].ident_rt # None
        /\ resources[k].rt_per_timestep =
              DictEntry(conf_runtime_per_step_dict, resources[k].dx) * RtBuffer

\* ---- get_identical_runs (SpecNml)
NonIgnored(nl) == (DOMAIN nl) \ ignore_params

\* every non-ignored parameter of either namelist is in both, with equal value
SameNonIgnored(a, b) ==
    /\ NonIgnored(a) = NonIgnored(b)
    /\ \A param \in NonIgnored(a) : a[param] = b[param]

\* the namelists are equal but for the parameter given
DifferOnlyIn(a, b, param) ==
    /\ (DOMAIN a) \ {param} = (DOMAIN b) \ {param}
    /\ \A q \in (DOMAIN a) \ {param} : a[q] = b[q]

\* C20: a run is in the list returned for a reference directory if and only
\* if every non-ignored parameter of either namelist is in both with equal
\* value; the relation is reflexive and symmetric, a difference in
\* start_hour only keeps two runs identical and a difference in mp_physics
\* does not.
C20_IdenticalRelation ==
    \A a \in DOMAIN identical_runs :
        /\ a \in identical_runs[a]
        /\ \A b \in Dirs :
            /\ b \in identical_runs[a] <=> SameNonIgnored(namelist[a], namelist[b])
            /\ b \in DOMAIN identical_runs
               => (b \in identical_runs[a] <=> a \in identical_runs[b])
            /\ DifferOnlyIn(namelist[a], namelist[b], "start_hour")
               => b \in identical_runs[a]
            /\ ("mp_physics" \in (DOMAIN namelist[a]) \cap (DOMAIN namelist[b])
                /\ namelist[a]["mp_physics"] # namelist[b]["mp_physics"])
               => b \notin identical_runs[a]

\* both directories were looked up: their namelists set the other parameters
\* alike and start_hour differently, and each is identical to the other
C20_Witness ==
    /\ DOMAIN identical_runs = Dirs
    /\ DOMAIN namelist[1] = Params /\ DOMAIN namelist[2] = Params
    /\ namelist[1]["start_hour"] # namelist[2]["start_hour"]
    /\ 2 \in identical_runs[1] /\ 1 \in identical_runs[2]

\* start and end date-time fields and output stream names, of the parameters
\* explored
TimeWindowParams == {"start_hour", "end_hour", "history_outname"}

\* the namelists agree on every parameter outside the set given
DifferOnlyWithin(a, b, S) ==
    /\ (DOMAIN a) \ S = (DOMAIN b) \ S
    /\ \A q \in (DOMAIN a) \ S : a[q] = b[q]

\* C21: two namelists that differ only in start date-time fields, end
\* date-time fields or output stream names are judged identical.
C21_IgnoreSetCoverage ==
    \A a \in DOMAIN identical_runs : \A b \in Dirs :
        DifferOnlyWithin(namelist[a], namelist[b], TimeWindowParams)
        => b \in identical_runs[a]

\* ---- find_nproc and the slots of a run (SpecTile)
\* the smallest divisor of n that is at least m (for m <= n)
SmallestDivisor(n, m) ==
    CHOOSE d \in m..n : n % d = 0 /\ \A e \in m..(d - 1) : n % e # 0

\* the grid points and the result of find_nproc, for x and for y
Axes == {<<n_we, nprocs[1]>>, <<n_sn, nprocs[2]>>}

\* C27 as stated: for n > min_n_per_proc with even_split, find_nproc returns
\* the smallest divisor d of n with d >= min_n_per_proc.
C27_EvenSplitDivisor ==
    (phase = "done" /\ even_split)
    => \A a \in Axes :
          a[1] > min_n_per_proc => a[2] = SmallestDivisor(a[1], min_n_per_proc)

\* C27, amended: for n > min_n_per_proc with even_split, find_nproc returns
\* n/d for the smallest divisor d of n with d >= min_n_per_proc.
C27_EvenSplitQuotient ==
    (phase = "done" /\ even_split)
    => \A a \in Axes :
          a[1] > min_n_per_proc
          => a[2] * SmallestDivisor(a[1], min_n_per_proc) = a[1]

\* 101 grid points in x (one part of 101) and 100 in y (four parts of 25)
C27_Witness ==
    /\ phase = "done" /\ even_split
    /\ n_we = 101 /\ n_sn = 100 /\ min_n_per_proc = 25
    /\ nprocs = <<1, 4>>

\* C28: find_nproc returns 1 whenever n <= min_n_per_proc, and
\* floor(n/min_n_per_proc) whenever n > min_n_per_proc without even_split.
C28_PlainSplit ==
    phase = "done"
    => \A a \in Axes :
          /\ a[1] <= min_n_per_proc => a[2] = 1
          /\ (a[1] > min_n_per_proc /\ ~even_split)
             => /\ a[2] * min_n_per_proc <= a[1]
                /\ a[1] < (a[2] + 1) * min_n_per_proc

\* (25, 25) gives 1, and (100, 25) gives 4
C28_Witness ==
    /\ phase = "done" /\ ~even_split
    /\ n_we = 25 /\ n_sn = 100 /\ min_n_per_proc = 25
    /\ nprocs = <<1, 4>>

\* what an axis resolves to: the result of find_nproc under its cap
ResolvedX ==
    IF max_nslotsx = None \/ nprocs[1] <= max_nslotsx THEN nprocs[1]
    ELSE max_nslotsx
ResolvedY ==
    IF max_nslotsy = None \/ nprocs[2] <= max_nslotsy THEN nprocs[2]
    ELSE max_nslotsy

\* C29: the tile shape of a run is (-1,-1) exactly when both axes resolve to
\* 1 after the caps, (1,1) is never appended to nxny, and the slot count
\* nx*ny is at least 1 (1 for the sentinel).
C29_SerialSentinel ==
    phase = "done"
    => /\ (nx = -1 /\ ny = -1) <=> (ResolvedX = 1 /\ ResolvedY = 1)
       /\ (nx = -1 \/ ny = -1) => (nx = -1 /\ ny = -1 /\ nslotsi = 1)
       /\ \A k \in DOMAIN nxny : nxny[k] # <<1, 1>> /\ nxny[k] = <<nx, ny>>
       /\ nslotsi >= 1 /\ nslotsi = nx * ny
       /\ \A k \in DOMAIN nslots : nslots[k] = nslotsi

\* both axes were capped to one slot and the run got the sentinel
C29_Witness ==
    /\ phase = "done"
    /\ nprocs[1] > 1 /\ nprocs[2] > 1
    /\ max_nslotsx = 1 /\ max_nslotsy = 1
    /\ nxny = << <<-1, -1>> >> /\ nslotsi = 1

\* ------------------------------------------------------- grid expansion
Composites == {k \in DOMAIN param_grid : param_grid[k].dict}

\* the positions of composite k that occur in the configurations
IdxPositions(k) ==
    {ValueOf(expansion.combs[n], IdxKey(k)) : n \in DOMAIN expansion.combs}

\* the configurations that hold position p of composite k
AtPosition(k, p) ==
    {n \in DOMAIN expansion.combs : ValueOf(expansion.combs[n], IdxKey(k)) = p}

\* C22: grid expansion raises, and no configuration, run identifier or run is
\* produced, exactly when the sub-sequences of some composite parameter have
\* unequal lengths; otherwise a composite whose sub-sequences have length L
\* contributes the L positions 0..L-1, each to equally many configurations
\* (to none exactly when another axis is empty).
C22_CompositeLengthCheck ==
    phase # "grid"
    => /\ expansion.raised
          <=> \E k \in Composites :
                 Len(param_grid[k].vals[1]) # Len(param_grid[k].vals[2])
       /\ expansion.raised
          => /\ expansion.combs = <<>> /\ expansion.combs_full = <<>>
             /\ phase = "error" /\ fnames = <<>> /\ runs = <<>>
       /\ ~expansion.raised
          => \A k \in Composites :
                LET L == Len(param_grid[k].vals[1])
                IN /\ IdxPositions(k) \subseteq 0..(L - 1)
                   /\ \A p, q \in 0..(L - 1) :
                         Cardinality(AtPosition(k, p)) = Cardinality(AtPosition(k, q))
                   /\ expansion.combs # <<>> => IdxPositions(k) = 0..(L - 1)
                   /\ L = 0 => expansion.combs = <<>>

\* a composite of sub-sequences of lengths 2 and 1 was refused
C22_Witness ==
    /\ phase = "error" /\ err = "composite"
    /\ \E k \in Composites :
          Len(param_grid[k].vals[1]) = 2 /\ Len(param_grid[k].vals[2]) = 1

\* the length of axis k: the number of values of a parameter varied alone,
\* the lockstep length of a composite
AxisLen(k) == Len(param_grid[k].vals[1])

RECURSIVE ProductOfLens(_)
ProductOfLens(k) == IF k > Len(param_grid) THEN 1 ELSE AxisLen(k) * ProductOfLens(k + 1)

\* no axis holds a value twice: a list holds distinct values, a composite
\* distinct pairs of sub-values
AxesDistinct ==
    \A k \in DOMAIN param_grid :
        IF param_grid[k].dict
        THEN NoDup([n \in 1..AxisLen(k) |->
                      <<param_grid[k].vals[1][n], param_grid[k].vals[2][n]>>])
        ELSE NoDup(param_grid[k].vals[1])

\* the values of a configuration that are varied: not the <name>_idx
Varied(comb) == SelectSeq(comb, LAMBDA e : e[1][2] # 3)

\* C23: an expansion that does not raise yields as many configurations as the
\* product of the axis lengths, in the grid-only and in the full view; when no
\* axis holds a value twice the configurations differ pairwise in their varied
\* values; an empty grid yields one configuration that holds the base
\* parameters and nothing else.
C23_ExpansionSize ==
    (phase # "grid" /\ ~expansion.raised)
    => /\ Len(expansion.combs) = ProductOfLens(1)
       /\ Len(expansion.combs_full) = ProductOfLens(1)
       /\ AxesDistinct
          => \A m, n \in DOMAIN expansion.combs :
                m # n => Varied(expansion.combs[m]) # Varied(expansion.combs[n])
       /\ param_grid = <<>>
          => /\ expansion.combs = << <<>> >>
             /\ expansion.combs_full = <<add_params>>

\* two axes of two distinct values each gave four configurations
C23_Witness ==
    /\ phase # "grid" /\ ~expansion.raised
    /\ Len(param_grid) = 2 /\ AxesDistinct
    /\ AxisLen(1) = 2 /\ AxisLen(2) = 2
    /\ Len(expansion.combs) = 4

\* an empty grid with base parameters gave the one configuration of them
C23_WitnessEmpty ==
    /\ phase # "grid" /\ param_grid = <<>> /\ add_params # <<>>
    /\ expansion.combs_full = <<add_params>>

\* the position on axis k of the n-th configuration (both from 0) when the
\* axes are taken in the order of param_grid and the last one varies fastest
RowOf(n, k) == (n \div ProductOfLens(k + 1)) % AxisLen(k)

\* the values param_grid declares for row r (from 0) of axis k, by name
Declared(k, r) ==
    IF param_grid[k].dict
    THEN << << <<k, 1>>, param_grid[k].vals[1][r + 1] >>,
            << <<k, 2>>, param_grid[k].vals[2][r + 1] >>,
            << IdxKey(k), r >> >>
    ELSE << << <<k, 0>>, param_grid[k].vals[1][r + 1] >> >>

\* the n-th configuration (from 1) of the Cartesian product in that order
InOrder(n) == Concat([k \in DOMAIN param_grid |-> Declared(k, RowOf(n - 1, k))])

NoComposite == Composites = {}

\* C24: the configurations are those of the Cartesian product with the axes
\* in the order of param_grid and the last axis varying fastest, each holding
\* its parameters in that order; the run identifiers follow the same order,
\* one per configuration, and are the series identifier and the varied values
\* in that order when nothing is relabelled.  Order and identifiers are so
\* fixed by param_grid alone.
C24_DeterministicOrder ==
    (phase # "grid" /\ ~expansion.raised)
    => /\ \A n \in DOMAIN expansion.combs : expansion.combs[n] = InOrder(n)
       /\ \A n \in DOMAIN expansion.combs_full :
             SubSeq(expansion.combs_full[n], 1, Len(InOrder(n))) = InOrder(n)
       /\ phase \in {"conf", "rep", "done"}
          => /\ Len(fnames) = Len(expansion.combs)
             /\ (NoComposite /\ param_names.none)
                => \A n \in DOMAIN fnames :
                      fnames[n] = <<RunID>> \o [k \in DOMAIN param_grid |->
                                      param_grid[k].vals[1][RowOf(n - 1, k) + 1]]

\* two axes of two distinct values each: the second configuration differs
\* from the first on the last axis only, and so do their identifiers
C24_Witness ==
    /\ phase = "done" /\ Len(param_grid) = 2 /\ NoComposite /\ param_names.none
    /\ AxesDistinct /\ AxisLen(1) = 2 /\ AxisLen(2) = 2
    /\ fnames[1][2] = fnames[2][2] /\ fnames[1][3] # fnames[2][3]
    /\ fnames[3][2] # fnames[1][2] /\ fnames[3][3] = fnames[1][3]

KeysOnce(comb) == NoDup([n \in DOMAIN comb |-> comb[n][1]])

\* C25: every full configuration holds every base parameter once; a
\* parameter the grid sets, directly or within a composite, keeps the value
\* of the grid there and a parameter of add_params alone has its base value;
\* the grid-only configuration holds the parameters of the grid only and is
\* the beginning of the full one.
C25_BaseParameterMerge ==
    (phase # "grid" /\ ~expansion.raised)
    => \A n \in DOMAIN expansion.combs_full :
          LET comb == expansion.combs[n]
              full == expansion.combs_full[n]
          IN /\ KeysOnce(full)
             /\ \A a \in DOMAIN add_params :
                   /\ add_params[a][1] \in Keys(full)
                   /\ add_params[a][1] \notin Keys(comb)
                      => ValueOf(full, add_params[a][1]) = add_params[a][2]
             /\ \A key \in Keys(comb) : ValueOf(full, key) = ValueOf(comb, key)
             /\ \A key \in Keys(comb) \cap Keys(InOrder(n)) :
                   ValueOf(full, key) = ValueOf(InOrder(n), key)
             /\ Keys(comb) = Keys(InOrder(n))
             /\ SubSeq(full, 1, Len(comb)) = comb

\* a base parameter the grid sets too kept the value of the grid, and one
\* the grid does not set was added
C25_Witness ==
    /\ phase # "grid" /\ ~expansion.raised /\ expansion.combs_full # <<>>
    /\ \E a, b \in DOMAIN add_params :
          /\ add_params[a][1] \in Keys(expansion.combs[1])
          /\ ValueOf(expansion.combs_full[1], add_params[a][1]) # add_params[a][2]
          /\ add_params[b][1] \notin Keys(expansion.combs[1])
          /\ ValueOf(expansion.combs_full[1], add_params[b][1]) = add_params[b][2]

\* C26: in every configuration, grid-only or full, and for every composite
\* parameter, <name>_idx is a position i of the sub-sequences and every
\* sub-parameter has the value its sequence holds at position i.
C26_LockstepComposites ==
    (phase # "grid" /\ ~expansion.raised)
    => \A n \in DOMAIN expansion.combs : \A k \in Composites :
          \A comb \in {expansion.combs[n], expansion.combs_full[n]} :
             LET idx == ValueOf(comb, IdxKey(k))
             IN /\ idx \in 0..(Len(param_grid[k].vals[1]) - 1)
                /\ \A j \in 1..2 :
                      /\ idx + 1 \in DOMAIN param_grid[k].vals[j]
                      /\ ValueOf(comb, <<k, j>>) = param_grid[k].vals[j][idx + 1]

\* a composite of the sequences (1, 2) and (2, 1): the configuration of
\* position 1 holds 2 and 1
C26_Witness ==
    /\ phase # "grid" /\ ~expansion.raised
    /\ \E k \in Composites :
          /\ param_grid[k].vals = << <<1, 2>>, <<2, 1>> >>
          /\ \E n \in DOMAIN expansion.combs :
                /\ ValueOf(expansion.combs[n], IdxKey(k)) = 1
                /\ ValueOf(expansion.combs[n], <<k, 1>>) = 2
                /\ ValueOf(expansion.combs[n], <<k, 2>>) = 1

\* -------------------------------------------------------- repetitions
\* the runs of different (configuration, repetition) pairs have different
\* run identifiers and different working directories
RunsDistinct ==
    \A a, b \in DOMAIN runs :
        (runs[a].i # runs[b].i \/ runs[a].rep # runs[b].rep)
        => /\ runs[a].IDr # runs[b].IDr
           /\ runs[a].run_dir_r # runs[b].run_dir_r

\* configuration c (from 0) is processed for the repetitions 0..n_rep-1, once
\* each, and no run is processed besides
RepsProcessed ==
    /\ Len(nreps) = Len(expansion.combs)
    /\ \A c \in 0..(Len(nreps) - 1) :
          /\ {runs[a].rep : a \in {b \in DOMAIN runs : runs[b].i = c}}
                = 0..(nreps[c + 1] - 1)
          /\ Cardinality({b \in DOMAIN runs : runs[b].i = c}) = nreps[c + 1]
    /\ Len(runs) = Sum(nreps)

ListsDistinct ==
    \A k \in DOMAIN param_grid :
        ~param_grid[k].dict => NoDup(param_grid[k].vals[1])

\* param_names gives no label to two positions
LabelsDistinct == param_names.none \/ NoDup(param_names.labels)

Unsubmitted == SubSeq(accepted, Len(SubmittedIDs) + 1, Len(accepted))

SlotsOf(id) == configs[id[1] + 1].nslots

\* the pool that holds exactly the runs ids, each with the slot count, tile
\* shape and memory of its configuration and its own wall-clock estimate
PoolOf(ids) ==
    [IDs |-> ids,
     nslots |-> [k \in DOMAIN ids |-> SlotsOf(ids[k])],
     nxny |-> [k \in DOMAIN ids |->
                  <<configs[ids[k][1] + 1].nx, configs[ids[k][1] + 1].ny>>],
     vmem |-> [k \in DOMAIN ids |-> configs[ids[k][1] + 1].vmem],
     rtr |-> IF use_job_scheduler
             THEN [k \in DOMAIN ids |-> EstimateOf(ids[k])]
             ELSE <<>>]

CurrentPool ==
    [IDs |-> IDs, nslots |-> nslots, nxny |-> nxny, vmem |-> vmem, rtr |-> rtr]

\* a flush is about to submit with pooling, the runs gathered having a
\* slot-sum above pool_size and being more than one
Overflow ==
    /\ phase = "flush" /\ niter = 0 /\ pool_jobs
    /\ Sum([k \in DOMAIN Unsubmitted |-> SlotsOf(Unsubmitted[k])]) > pool_size
    /\ Len(Unsubmitted) > 1

\* C31: at a flush with pooling, a slot-sum above pool_size and more than one
\* run gathered, and only then, the run accepted last is taken out: the pool
\* to submit is all other runs in their order; the submission that follows
\* is that pool, and the pool after it is the run taken out alone, with the
\* slot count, tile shape and memory of its configuration and, with a job
\* scheduler, its own wall-clock estimate.
C31_OverflowSplit ==
    /\ (phase = "flush" /\ niter = 0) => (Overflow <=> resched_i)
    /\ Overflow
       => /\ IDr = accepted[Len(accepted)]
          /\ CurrentPool = PoolOf(ButLast(Unsubmitted))
          /\ IDr \in cutoff
    /\ (niter >= 1 /\ resched_i)
       => /\ submitted # <<>>
          /\ IDr \in cutoff
          /\ IDs = <<IDr>>
          /\ nslots = PoolOf(<<IDr>>).nslots
          /\ nxny = PoolOf(<<IDr>>).nxny
          /\ vmem = PoolOf(<<IDr>>).vmem
          /\ use_job_scheduler => rtr = PoolOf(<<IDr>>).rtr
          /\ niter = 1
             => /\ Unsubmitted = <<IDr>>
                /\ LET p == submitted[Len(submitted)]
                   IN /\ [IDs |-> p.IDs, nslots |-> p.nslots, nxny |-> p.nxny,
                          vmem |-> p.vmem, rtr |-> p.rtr] = PoolOf(p.IDs)
                      /\ p.IDs # <<>> /\ IDr \notin Range(p.IDs)
                      /\ Sum(p.nslots) + SlotsOf(IDr) > pool_size

\* runs of 1, 1 and 2 slots with pool_size 3: the first two were submitted
\* together and the third is the next pool
C31_Witness ==
    /\ pool_jobs /\ pool_size = 3 /\ niter = 1 /\ resched_i
    /\ Len(submitted) = 1 /\ submitted[1].nslots = <<1, 1>>
    /\ IDs = <<IDr>> /\ nslots = <<2>> /\ accepted = submitted[1].IDs \o <<IDr>>

\* ------------------------------------------------------------ flush
\* the slot-sum of the runs gathered and not yet submitted
GatheredSlots == Sum([k \in DOMAIN Unsubmitted |-> SlotsOf(Unsubmitted[k])])

\* C32: with pooling a submission is made in a pass of the repetition loop
\* only if the slot-sum of the runs gathered has reached pool_size or the
\* repetition is the last of the batch; and when the invocation has returned
\* with runs accepted whose slot counts sum up to less than pool_size, exactly
\* one submission was made, at the last repetition, of all accepted runs in
\* acceptance order.
C32_NoPrematureFlush ==
    /\ (pool_jobs /\ phase = "flush" /\ niter = 0)
       => /\ last_id <=> IDr = LastRun
          /\ GatheredSlots >= pool_size \/ last_id
    /\ (pool_jobs /\ phase = "done" /\ accepted # <<>>
        /\ Sum([k \in DOMAIN accepted |-> SlotsOf(accepted[k])]) < pool_size)
       => /\ Len(submitted) = 1
          /\ submitted[1].IDs = accepted

\* C37: every submission holds at least one run identifier, and so does the
\* pool whenever the submission loop is entered, also after an overflow cut;
\* when the last repetition of the batch is skipped with nothing pending, no
\* submission is made for it.
C37_NoEmptySubmission ==
    /\ \A k \in DOMAIN submitted :
          submitted[k].IDs # <<>> /\ Len(submitted[k].nslots) = Len(submitted[k].IDs)
    /\ phase = "flush" => IDs # <<>> /\ Len(nslots) = Len(IDs)
    /\ (phase = "done" /\ IDr = LastRun /\ IDr \in skipped /\ submitted # <<>>)
       => LET p == submitted[Len(submitted)]
          IN p.IDs[Len(p.IDs)] = accepted[Len(accepted)]

\* the last repetition was skipped after the run before it had been
\* submitted: the invocation returned without another submission
C37_Witness ==
    /\ phase = "done" /\ ~pool_jobs /\ IDr = LastRun /\ IDr \in skipped
    /\ Len(submitted) = 1 /\ Len(accepted) = 1 /\ IDs = <<>>

\* ------------------------------------------------------ restart segments
\* prepare_restart gets as far as moving the output of run id: run.log is
\* there without the success line and the newest restart file is of a time
\* before end_time
RestartPrepared(id) ==
    /\ ~init /\ restart /\ phase = "rep" /\ id = <<i, rep>>
    /\ runlog[id] = "partial" /\ rstleft[id] # None /\ rstleft[id] > 0

\* C33: when a restart is prepared, every output file of the run that exists
\* is moved to rst/ under the smallest index not in use for it there, and
\* nothing else changes rst/: no segment is overwritten or removed, and the
\* segments of a file are always 0 .. k-1, k the number of times it was moved.
C33_RestartSegments ==
    [][/\ \A id \in RunsFS : \A st \in Streams :
             IF RestartPrepared(id) /\ st \in outfiles[id]
             THEN /\ MinFree(rstseg[id][st]) \notin rstseg[id][st]
                  /\ rstseg'[id][st] = rstseg[id][st] \cup {MinFree(rstseg[id][st])}
                  /\ st \notin outfiles'[id]
             ELSE rstseg'[id][st] = rstseg[id][st]
       /\ (\A id \in RunsFS : \A st \in Streams :
             rstseg[id][st] = 0..(Cardinality(rstseg[id][st]) - 1))'
      ]_vars

\* a run was restarted twice with its output there: segments 0 and 1
C33_Witness ==
    \E id \in RunsFS : \A st \in Streams : rstseg[id][st] = {0, 1}

C35_UninitializedSkipNoChange ==
    [][(~init /\ phase = "rep" /\ rundir[<<i, rep>>] # "init")
          => /\ disk' = disk /\ nmoved' = nmoved
             /\ phase' # "error"
                => <<i, rep>> \in skipped' /\ accepted' = accepted
      ]_vars

\* C36: with check_args no pass of an invocation, in init, run or restart
\* mode and under any -e value, executes an init command or a run or
\* scheduler command, and none changes anything on disk: no run directory
\* and no output file is renamed or moved to bak/ or rst/, no namelist is
\* patched.
C36_DryRunNoEffect ==
    [][(check_args /\ phase \in {"conf", "rep", "flush"})
          => /\ ninit' = ninit /\ nexec' = nexec
             /\ disk' = disk /\ nmoved' = nmoved
      ]_vars

\* C38: for every n >= 1 and min_n_per_proc >= 1, with and without
\* even_split, find_nproc returns an integer p >= 1, never nothing; the parts
\* hold at least min_n_per_proc grid points (n/p >= min_n_per_proc) whenever
\* n > min_n_per_proc, and p divides n when even_split is requested.
C38_SlotFunctionTotal ==
    phase = "done"
    => /\ Len(nprocs) = 2
       /\ \A a \in Axes :
             /\ a[1] >= 1 /\ min_n_per_proc >= 1
             /\ a[2] \in Nat /\ a[2] >= 1 /\ a[2] # None
             /\ a[1] > min_n_per_proc => a[2] * min_n_per_proc <= a[1]
             /\ even_split => a[1] % a[2] = 0

\* even_split with min_n_per_proc 2: a prime 5 is one part, 6 is three parts
\* of two
C38_Witness ==
    /\ phase = "done" /\ even_split /\ min_n_per_proc = 2
    /\ n_we = 5 /\ n_sn = 6 /\ nprocs = <<1, 3>>

====
